---- MODULE Spec2Model ----
(***************************************************************************)
(* Host abstraction and remote execution core of sos (src/sos/hosts.py).   *)
(*                                                                         *)
(* The parts of the program are modelled each with its own                 *)
(* specification over the shared variables:                                *)
(*   SpecPath  the path mapper of RemoteHost (_map_var, _reverse_map_var,  *)
(*             is_shared), a pure computation on strings;                  *)
(*   SpecSock  the tunneled request/reply socket of RemoteHost             *)
(*             (connect_to_server, check_output, target_exists,            *)
(*             target_signature), one caller at a time;                    *)
(*   SpecSockConc  the same with two caller threads;                       *)
(*   SpecSockLive  SpecSock with the steps of connect_to_server taken      *)
(*             whenever they can be (a caller does not stall);             *)
(*   SpecReg   the registry Host.host_instances, one caller at a time;     *)
(*   SpecRegConc   the same with two caller threads;                       *)
(*   SpecLit   the literals of path_map (_get_path_map);                   *)
(*   SpecTask  prepare_task of a LocalHost and of a RemoteHost;            *)
(*   SpecResolve  the resolver (_get_local_host, _get_remote_host,         *)
(*             _get_config);                                               *)
(*   SpecXfer  send_to_host and receive_from_host;                         *)
(*   SpecRun   LocalHost.run_command;                                      *)
(*   SpecAgent the agent that _get_host_agent builds from _get_config;     *)
(*   SpecPrep  RemoteHost._prepare_task, step by step;                     *)
(*   SpecResult  RemoteHost.receive_result, step by step;                  *)
(*   SpecLocal  LocalHost.prepare_task and the task file it writes.        *)
(*                                                                         *)
(* A string is a sequence of one-character strings.                        *)
(***************************************************************************)
EXTENDS Integers, Sequences, FiniteSets, TLC

VARIABLES
    \* ---- path mapper ----
    path_map,       \* RemoteHost.path_map: the dict, as a sequence of <<local, remote>> in insertion order
    shared_dirs,    \* RemoteHost.shared_dirs: sequence of strings
    fs,             \* the local file system: the set of directories that exist (canonical names)
    source,         \* the argument of the call
    phase,          \* "fresh" | "mapped" | "reversed" | "shared"
    result,         \* what the last call returned: [ok |-> BOOLEAN, val |-> value]
    \* ---- tunneled socket of one RemoteHost ----
    remote_socket,  \* RemoteHost.remote_socket: NoSock (None) or a socket
    sockst,         \* the zmq REQ sockets: [st |-> "free" | "ready" | "awaiting", by |-> thread, verb |-> request]
    pc,             \* per thread: where its call stands
    op,             \* per thread: the operation it called
    rsock,          \* per thread: the local rsocket, what connect_to_server returned
    attempts,       \* per thread: the local attempts of connect_to_server
    log,            \* per thread: what the current call did so far, in order
    ret,            \* per thread: what the last call returned or raised
    budget,         \* calls that may still be started
    \* ---- registry of host agents ----
    CONFIG,         \* env.sos_dict["CONFIG"]: [localhost |-> a name or NoKey, hosts |-> the entries in insertion order]
    hostname,       \* socket.gethostname().lower() of this machine
    host_instances, \* Host.host_instances: the dict alias -> agent
    agents,         \* the LocalHost and RemoteHost objects built so far
    engines,        \* the task engine objects built so far
    hpc,            \* per thread: where its Host(alias, start_engine) stands
    host,           \* per thread: the Host object it constructs
    hist,           \* what happened so far, in order: finished Host(...) calls, resets, engine stops
    aliases,        \* the aliases callers ask for
    quota,          \* Host(...) calls, resets and engine stops that may still happen
    \* ---- path_map literals ----
    literals,  \* config["path_map"] of a RemoteHost under construction: a list of strings
    built, \* what RemoteHost._get_path_map made of it: not called yet, the dict, or the error
    \* ---- prepare_task ----
    limits,  \* the ceilings of the host config: max_mem, max_cores, max_walltime, each None or a value
    request,  \* what the task asks for in _runtime: mem, cores, walltime, each None or a value
    task_file,  \* whether ~/.sos/tasks/<task_id>.task is a file
    local_ret,  \* what LocalHost.prepare_task returned or raised, and what it logged
    remote_ret, \* what RemoteHost.prepare_task returned, and what it logged
    \* ---- resolver ----
    res_arg,  \* the alias that is resolved
    resolutions, \* the calls of Host._get_config so far: CONFIG before, and what came out
    \* ---- file transfer ----
    items,  \* the items of the send_to_host and receive_from_host calls
    lcontent,  \* the content of each regular file of this machine
    rcontent,  \* the content of each regular file of the remote host
    calls, \* the send_to_host and receive_from_host calls so far: the commands each issued, and what it returned or raised
    \* ---- run_command ----
    wait_for_task,  \* the argument wait_for_task of LocalHost.run_command
    platform,  \* sys.platform
    cpc,  \* where the caller of run_command stands
    proc, \* the processes that run_command gives rise to: state, parent and next step of each
    \* ---- prepare_task and receive_result of a RemoteHost ----
    task,  \* the task of the prepare_task or receive_result call: its _input, _depends, _output, and to_host, from_host and run mode
    tf,  \* the task file on this machine: its status, the runtime written to it, and the result the remote host left
    ppc,  \* where the prepare_task or receive_result call stands
    trace  \* what the call did so far, in order

pathVars == <<path_map, shared_dirs, fs, source, phase, result>>
sockVars == <<remote_socket, sockst, pc, op, rsock, attempts, log, ret, budget>>

regVars == <<CONFIG, hostname, host_instances, agents, engines, hpc, host, hist, aliases, quota>>

litVars == <<literals, built>>

taskVars == <<limits, request, task_file, local_ret, remote_ret>>

resVars == <<res_arg, resolutions>>

xferVars == <<items, lcontent, rcontent, calls>>

runVars == <<wait_for_task, platform, cpc, proc>>

jobVars == <<task, tf, ppc, trace>>

vars == <<pathVars, sockVars, regVars, litVars, taskVars, resVars, xferVars, runVars, jobVars>>

-----------------------------------------------------------------------------
(***************************************************************************)
(* Strings                                                                 *)
(***************************************************************************)

\* Longest source string drawn by Init.
MaxPathLen == 4

SEP == "/"
BACKSLASH == "\\"

\* The characters source paths are made of.
PathChars == {"/", "\\", "a", "b"}

Min(a, b) == IF a < b THEN a ELSE b

\* str.startswith
StartsWith(p, s) == Len(s) <= Len(p) /\ SubSeq(p, 1, Len(s)) = s

\* str.endswith for a one-character suffix
EndsWith(p, c) == Len(p) > 0 /\ p[Len(p)] = c

\* p[:n]
Slice(p, n) == SubSeq(p, 1, Min(n, Len(p)))

\* p[n:]
Drop(p, n) == SubSeq(p, n + 1, Len(p))

\* str.replace("\\", "/")
ReplaceBackslash(p) == [i \in 1..Len(p) |-> IF p[i] = BACKSLASH THEN SEP ELSE p[i]]

\* Runs of "/" become one "/".
RECURSIVE Collapse(_)
Collapse(p) ==
    IF Len(p) <= 1 THEN p
    ELSE IF p[1] = SEP /\ p[2] = SEP THEN Collapse(Tail(p))
    ELSE <<p[1]>> \o Collapse(Tail(p))

StripTrail(p) == IF Len(p) > 1 /\ EndsWith(p, SEP) THEN SubSeq(p, 1, Len(p) - 1) ELSE p

\* What the kernel resolves an absolute name to (no symbolic links, a
\* case-sensitive file system): separators collapsed, no trailing separator.
Canon(p) == StripTrail(Collapse(p))

\* posixpath.normpath of an absolute path without "." or ".." components:
\* exactly two leading slashes are kept.
NormPath(p) ==
    IF StartsWith(p, <<SEP, SEP>>) /\ ~StartsWith(p, <<SEP, SEP, SEP>>)
    THEN <<SEP>> \o Canon(p)
    ELSE Canon(p)

\* os.getcwd()
cwd == <<"/", "a">>

\* os.path.abspath(os.path.expanduser(p)); no source starts with "~".
AbsPath(p) == IF StartsWith(p, <<SEP>>) THEN NormPath(p) ELSE NormPath(cwd \o <<SEP>> \o p)

\* os.path.exists of an absolute name
Exists(x) == Canon(x) \in fs

\* os.path.samefile(x, k) where both exist
SameFile(x, k) == Canon(x) = Canon(k)

\* max(seq, key=len): the first element of greatest length
RECURSIVE MaxByLen(_)
MaxByLen(s) ==
    IF Len(s) = 1 THEN s[1]
    ELSE LET m == MaxByLen(Tail(s)) IN IF Len(s[1]) >= Len(m) THEN s[1] ELSE m

Keys(pm) == [i \in 1..Len(pm) |-> pm[i][1]]

\* pm[k]
Lookup(pm, k) == pm[CHOOSE i \in 1..Len(pm) : pm[i][1] = k][2]

\* " -> "
ARROW == <<" ", "-", ">", " ">>

Ret(v) == [ok |-> TRUE, val |-> v]
Raise(e) == [ok |-> FALSE, val |-> e]

-----------------------------------------------------------------------------
(***************************************************************************)
(* Path mapper                                                             *)
(***************************************************************************)

\* The candidate keys of the list comprehension of _map_var: the test
\* os.path.exists(dest[:len(k)]) and os.path.samefile(dest[:len(k)], k).
\* samefile stats k too, and raises FileNotFoundError when k does not exist.
KeyRaises(dest, k) == Exists(Slice(dest, Len(k))) /\ ~Exists(k)
KeyMatches(dest, k) == Exists(Slice(dest, Len(k))) /\ SameFile(Slice(dest, Len(k)), k)

\* The dest after "use the cwd name to avoid wrong case for cwd".
CwdCase(dest) ==
    IF Exists(Slice(dest, Len(cwd))) /\ SameFile(Slice(dest, Len(cwd)), cwd)
    THEN cwd \o Drop(dest, Len(cwd))
    ELSE dest

\* RemoteHost._map_var for a string
_map_var(src) ==
    LET dest == CwdCase(AbsPath(src))
        keys == Keys(path_map)
        matched == SelectSeq(keys, LAMBDA k : KeyMatches(dest, k))
    IN  IF \E i \in 1..Len(keys) : KeyRaises(dest, keys[i])
        THEN Raise("FileNotFoundError")
        ELSE IF matched # <<>>
        THEN LET k == MaxByLen(matched)
             IN  Ret(ReplaceBackslash(Lookup(path_map, k) \o Drop(dest, Len(k))))
        ELSE Ret(ReplaceBackslash(dest))

\* RemoteHost._map_path for a string: {source: dest}
_map_path(src) ==
    LET r == _map_var(src) IN IF r.ok THEN Ret(<<src, r.val>>) ELSE r

\* The test of the list comprehension of _reverse_map_var
RemoteMatches(dest, r) ==
    /\ StartsWith(dest, r)
    /\ \/ Len(r) = Len(dest)
       \/ EndsWith(r, SEP)
       \/ EndsWith(r, BACKSLASH)
       \/ dest[Len(r) + 1] \in {SEP, BACKSLASH}

\* RemoteHost._reverse_map_var for a string
_reverse_map_var(dest) ==
    LET idx == SelectSeq([i \in 1..Len(path_map) |-> i],
                         LAMBDA i : RemoteMatches(dest, path_map[i][2]))
        matched == [j \in 1..Len(idx) |-> path_map[idx[j]][1]]
    IN  IF matched # <<>>
        THEN LET k == MaxByLen(matched)
             IN  Ret(ReplaceBackslash(k \o Drop(dest, Len(Lookup(path_map, k)))))
        ELSE Ret(ReplaceBackslash(dest))

\* RemoteHost.is_shared: the loop over shared_dirs from index i
RECURSIVE SharedFrom(_, _)
SharedFrom(fullpath, i) ==
    IF i > Len(shared_dirs) THEN FALSE
    ELSE IF /\ StartsWith(fullpath, shared_dirs[i])
            /\ ~\E j \in 1..Len(path_map) : StartsWith(fullpath, path_map[j][1])
    THEN TRUE
    ELSE SharedFrom(fullpath, i + 1)

\* is_shared as it was before issue 710: shared whatever path_map says
is_shared_before_710(p) ==
    \E i \in 1..Len(shared_dirs) : StartsWith(AbsPath(p), shared_dirs[i])

is_shared(p) == SharedFrom(AbsPath(p), 1)

-----------------------------------------------------------------------------
(***************************************************************************)
(* Tunneled socket of a RemoteHost                                         *)
(*                                                                         *)
(* A zmq REQ socket alternates send and recv: a send while a request is    *)
(* outstanding raises zmq.ZMQError (EFSM).  The helper at the other end is *)
(* the environment: it answers a request, answers it with something        *)
(* unexpected, or does not answer within the poll.                         *)
(***************************************************************************)

\* Calls started in one behaviour.
MaxCalls == 3

\* self.remote_socket = None
NoSock == 0

\* "elif attempts < 5" of connect_to_server
MaxAttempts == 5

Threads == {1, 2}
SockIds == 1..MaxCalls

Ops == {"check_output", "target_exists", "target_signature"}

\* The verb of the request an operation sends
Verb(o) ==
    CASE o = "check_output" -> "check_output"
      [] o = "target_exists" -> "exists"
      [] o = "target_signature" -> "signature"


\* The helper's replies to a request: a string, or the tuple (ret, msg)
StrReply(m) == [kind |-> "str", rc |-> 0, msg |-> m]
TupleReply(rc, m) == [kind |-> "tuple", rc |-> rc, msg |-> m]
Replies(verb) ==
    CASE verb = "check_output" -> {TupleReply(0, "output"), TupleReply(1, "failed"), StrReply("error:")}
      [] verb = "exists" -> {StrReply("yes"), StrReply("no"), StrReply("error:")}
      [] verb = "signature" -> {StrReply("md5sum"), StrReply("error:")}
      [] verb = "alive" -> {StrReply("yes")}

Ev(e, sk, x) == [e |-> e, s |-> sk, x |-> x]
Logged(t, ev) == [log EXCEPT ![t] = Append(@, ev)]

FreeSock == [st |-> "free", by |-> 0, verb |-> ""]
ReadySock == [st |-> "ready", by |-> 0, verb |-> ""]
Awaiting(t, verb) == [st |-> "awaiting", by |-> t, verb |-> verb]

\* zmq.Context().socket(zmq.REQ): a socket that is not open yet
NewSock == CHOOSE n \in SockIds : sockst[n].st = "free" /\ \A m \in SockIds : m < n => sockst[m].st # "free"

\* An exception leaves the try block of the operation: check_output logs
\* and re-raises, target_exists returns False, target_signature returns
\* textMD5(targets.target_name()).
Caught(o, e) ==
    CASE o = "check_output" -> Raise(e)
      [] o = "target_exists" -> Ret("False")
      [] o = "target_signature" -> Ret("textMD5")

\* What the operation makes of the decoded reply
Decoded(o, r) ==
    CASE o = "check_output" ->
            IF r.kind # "tuple" THEN Raise("ValueError")
            ELSE IF r.rc # 0 THEN Raise("RuntimeError")
            ELSE Ret(r.msg)
      [] o = "target_exists" ->
            IF r.kind # "str" THEN Raise("AttributeError")
            ELSE IF r.msg = "error:" THEN Ret("False")
            ELSE IF r.msg = "yes" THEN Ret("True") ELSE Ret("False")
      [] o = "target_signature" ->
            IF r.kind # "str" THEN Raise("AttributeError")
            ELSE IF r.msg = "error:" THEN Ret("textMD5")
            ELSE Ret(r.msg)

\* The call of thread t ends with outcome v
Return(t, v) ==
    /\ pc' = [pc EXCEPT ![t] = "idle"]
    /\ ret' = [ret EXCEPT ![t] = v]

\* A thread calls check_output, target_exists or target_signature
Call(t, o) ==
    /\ pc[t] = "idle"
    /\ budget > 0
    /\ budget' = budget - 1
    /\ op' = [op EXCEPT ![t] = o]
    /\ pc' = [pc EXCEPT ![t] = "connect"]
    /\ log' = [log EXCEPT ![t] = <<>>]
    /\ ret' = [ret EXCEPT ![t] = Ret("")]
    /\ rsock' = [rsock EXCEPT ![t] = NoSock]
    /\ attempts' = [attempts EXCEPT ![t] = 0]
    /\ UNCHANGED <<remote_socket, sockst, pathVars, regVars, litVars, taskVars, resVars, xferVars, runVars, jobVars>>

\* _test_tunneled_socket(self.remote_socket): "if not rsock: return False",
\* else rsock.send(encode_msg('alive'))
TestSend(t) ==
    /\ pc[t] = "connect"
    /\ IF remote_socket = NoSock
       THEN /\ pc' = [pc EXCEPT ![t] = "start"]
            /\ log' = Logged(t, Ev("probe", NoSock, "absent"))
            /\ UNCHANGED <<sockst, rsock, ret>>
       ELSE IF sockst[remote_socket].st = "awaiting"
       THEN /\ log' = Logged(t, Ev("efsm", remote_socket,
                                   IF sockst[remote_socket].by = t THEN "own" ELSE "other"))
            /\ Return(t, Caught(op[t], "ZMQError"))
            /\ UNCHANGED <<sockst, rsock>>
       ELSE /\ sockst' = [sockst EXCEPT ![remote_socket] = Awaiting(t, "alive")]
            /\ rsock' = [rsock EXCEPT ![t] = remote_socket]
            /\ pc' = [pc EXCEPT ![t] = "poll"]
            /\ UNCHANGED <<log, ret>>
    /\ UNCHANGED <<remote_socket, op, attempts, budget, pathVars, regVars, litVars, taskVars, resVars, xferVars, runVars, jobVars>>

\* A connect_to_server that ignores a healthy probe and goes on to restart
\* the helper
TestYesRestarts(t) ==
    /\ pc[t] = "poll"
    /\ pc' = [pc EXCEPT ![t] = "start"]
    /\ sockst' = [sockst EXCEPT ![rsock[t]] = ReadySock]
    /\ log' = Logged(t, Ev("probe", rsock[t], "yes"))
    /\ UNCHANGED <<remote_socket, rsock, ret, op, attempts, budget, pathVars, regVars, litVars, taskVars, resVars, xferVars, runVars, jobVars>>

\* rsock.poll(1000, zmq.POLLIN) of _test_tunneled_socket: the probe was
\* answered "yes", connect_to_server returns self.remote_socket
TestYes(t) ==
    /\ pc[t] = "poll"
    /\ pc' = [pc EXCEPT ![t] = "request"]
    /\ sockst' = [sockst EXCEPT ![rsock[t]] = ReadySock]
    /\ log' = Logged(t, Ev("probe", rsock[t], "yes"))
    /\ rsock' = [rsock EXCEPT ![t] = remote_socket]
    /\ UNCHANGED <<remote_socket, ret, op, attempts, budget, pathVars, regVars, litVars, taskVars, resVars, xferVars, runVars, jobVars>>

\* The probe was answered, not with "yes": "assert ret == 'yes'" fails
TestOther(t) ==
    /\ pc[t] = "poll"
    /\ sockst' = [sockst EXCEPT ![rsock[t]] = ReadySock]
    /\ log' = Logged(t, Ev("probe", rsock[t], "other"))
    /\ Return(t, Caught(op[t], "AssertionError"))
    /\ UNCHANGED <<remote_socket, rsock, op, attempts, budget, pathVars, regVars, litVars, taskVars, resVars, xferVars, runVars, jobVars>>

\* A _test_tunneled_socket that takes a probe without answer for healthy
TestNoneReturns(t) ==
    /\ pc[t] = "poll"
    /\ pc' = [pc EXCEPT ![t] = "request"]
    /\ log' = Logged(t, Ev("probe", rsock[t], "none"))
    /\ UNCHANGED <<remote_socket, sockst, rsock, ret, op, attempts, budget, pathVars, regVars, litVars, taskVars, resVars, xferVars, runVars, jobVars>>

\* No answer within the poll: _test_tunneled_socket returns False
TestNone(t) ==
    /\ pc[t] = "poll"
    /\ pc' = [pc EXCEPT ![t] = "start"]
    /\ log' = Logged(t, Ev("probe", rsock[t], "none"))
    /\ UNCHANGED <<remote_socket, sockst, rsock, ret, op, attempts, budget, pathVars, regVars, litVars, taskVars, resVars, xferVars, runVars, jobVars>>

\* self.run_command(['nohup', 'sos', 'server', ...], wait_for_task=False); attempts = 0
StartServer(t) ==
    /\ pc[t] = "start"
    /\ log' = Logged(t, Ev("start_server", NoSock, ""))
    /\ attempts' = [attempts EXCEPT ![t] = 0]
    /\ pc' = [pc EXCEPT ![t] = "create"]
    /\ UNCHANGED <<remote_socket, sockst, op, rsock, ret, budget, pathVars, regVars, litVars, taskVars, resVars, xferVars, runVars, jobVars>>

\* A connect_to_server that caches the new socket but returns the one that
\* was cached before, if there was one
CreateYesReturnsStale(t) ==
    /\ pc[t] = "create"
    /\ sockst' = [sockst EXCEPT ![NewSock] = ReadySock]
    /\ log' = Logged(t, Ev("create", NewSock, "yes"))
    /\ remote_socket' = NewSock
    /\ rsock' = [rsock EXCEPT ![t] = IF remote_socket = NoSock THEN NewSock ELSE remote_socket]
    /\ pc' = [pc EXCEPT ![t] = "request"]
    /\ UNCHANGED <<attempts, ret, op, budget, pathVars, regVars, litVars, taskVars, resVars, xferVars, runVars, jobVars>>

\* One turn of the while loop of connect_to_server: _create_tunneled_socket
\* returned the new socket, which is cached and returned
CreateYes(t) ==
    /\ pc[t] = "create"
    /\ sockst' = [sockst EXCEPT ![NewSock] = ReadySock]
    /\ log' = Logged(t, Ev("create", NewSock, "yes"))
    /\ remote_socket' = NewSock
    /\ rsock' = [rsock EXCEPT ![t] = NewSock]
    /\ pc' = [pc EXCEPT ![t] = "request"]
    /\ UNCHANGED <<attempts, ret, op, budget, pathVars, regVars, litVars, taskVars, resVars, xferVars, runVars, jobVars>>

\* The new socket was answered, not with "yes": the assert fails, the
\* socket stays open
CreateOther(t) ==
    /\ pc[t] = "create"
    /\ sockst' = [sockst EXCEPT ![NewSock] = ReadySock]
    /\ log' = Logged(t, Ev("create", NewSock, "other"))
    /\ Return(t, Caught(op[t], "AssertionError"))
    /\ UNCHANGED <<remote_socket, rsock, attempts, op, budget, pathVars, regVars, litVars, taskVars, resVars, xferVars, runVars, jobVars>>

\* No answer within the poll: rsock.close(), return None; then sleep and
\* try again, or raise
CreateNone(t) ==
    /\ pc[t] = "create"
    /\ log' = Logged(t, Ev("create", NewSock, "none"))
    /\ IF attempts[t] < MaxAttempts
       THEN /\ attempts' = [attempts EXCEPT ![t] = @ + 1]
            /\ UNCHANGED <<pc, ret>>
       ELSE /\ Return(t, Caught(op[t], "RuntimeError"))
            /\ UNCHANGED attempts
    /\ UNCHANGED <<remote_socket, sockst, rsock, op, budget, pathVars, regVars, litVars, taskVars, resVars, xferVars, runVars, jobVars>>

\* rsocket.send(encode_msg([verb, ...]))
SendRequest(t) ==
    /\ pc[t] = "request"
    /\ IF sockst[rsock[t]].st = "awaiting"
       THEN /\ log' = Logged(t, Ev("efsm", rsock[t],
                                   IF sockst[rsock[t]].by = t THEN "own" ELSE "other"))
            /\ Return(t, Caught(op[t], "ZMQError"))
            /\ UNCHANGED sockst
       ELSE /\ sockst' = [sockst EXCEPT ![rsock[t]] = Awaiting(t, Verb(op[t]))]
            /\ log' = Logged(t, Ev("send", rsock[t], Verb(op[t])))
            /\ pc' = [pc EXCEPT ![t] = "recv"]
            /\ UNCHANGED ret
    /\ UNCHANGED <<remote_socket, op, rsock, attempts, budget, pathVars, regVars, litVars, taskVars, resVars, xferVars, runVars, jobVars>>

\* decode_msg(rsocket.recv()): the helper's reply to the outstanding request arrives
Recv(t, r) ==
    /\ pc[t] = "recv"
    /\ sockst[rsock[t]].st = "awaiting"
    /\ r \in Replies(sockst[rsock[t]].verb)
    /\ sockst' = [sockst EXCEPT ![rsock[t]] = ReadySock]
    /\ log' = Logged(t, Ev("recv", rsock[t], r.msg))
    /\ Return(t, Decoded(op[t], r))
    /\ UNCHANGED <<remote_socket, op, rsock, attempts, budget, pathVars, regVars, litVars, taskVars, resVars, xferVars, runVars, jobVars>>

\* The socket is self.remote_socket or the local rsock of a call under way
Referenced(n) == n = remote_socket \/ \E t \in DOMAIN pc : pc[t] # "idle" /\ rsock[t] = n

\* An open socket that nothing refers to any more (the cached one that
\* "self.remote_socket = rsock" replaced, the new one of a failed assert,
\* neither of which the code closes) is closed when its object is
\* collected, which may be at once, later or never
Finalized(n) ==
    /\ sockst[n].st # "free"
    /\ ~Referenced(n)
    /\ sockst' = [sockst EXCEPT ![n] = FreeSock]
    /\ UNCHANGED <<remote_socket, pc, op, rsock, attempts, log, ret, budget, pathVars, regVars, litVars, taskVars, resVars, xferVars, runVars, jobVars>>

AllReplies == UNION {Replies(v) : v \in {"check_output", "exists", "signature", "alive"}}

LitIdle ==
    /\ literals = <<>>
    /\ built = [ok |-> TRUE, val |-> <<>>, called |-> FALSE]

TaskIdle ==
    /\ limits = <<>>
    /\ request = <<>>
    /\ task_file = FALSE
    /\ local_ret = <<>>
    /\ remote_ret = <<>>

ResIdle ==
    /\ res_arg = ""
    /\ resolutions = <<>>

XferIdle ==
    /\ items = <<>>
    /\ lcontent = <<>>
    /\ rcontent = <<>>
    /\ calls = <<>>

RunIdle ==
    /\ wait_for_task = FALSE
    /\ platform = ""
    /\ cpc = "idle"
    /\ proc = <<>>

JobIdle ==
    /\ task = <<>>
    /\ tf = <<>>
    /\ ppc = "idle"
    /\ trace = <<>>

RegIdle ==
    /\ CONFIG = [localhost |-> "", hosts |-> <<>>]
    /\ hostname = ""
    /\ host_instances = <<>>
    /\ agents = <<>>
    /\ engines = <<>>
    /\ hpc = <<>>
    /\ host = <<>>
    /\ hist = <<>>
    /\ aliases = {}
    /\ quota = 0

PathIdle ==
    /\ path_map = <<>>
    /\ shared_dirs = <<>>
    /\ fs = {}
    /\ source = <<>>
    /\ phase = "fresh"
    /\ result = Ret(<<>>)

\* A RemoteHost after __init__, and the caller threads
InitSockFor(callers) ==
    /\ PathIdle
    /\ JobIdle
    /\ RunIdle
    /\ XferIdle
    /\ ResIdle
    /\ TaskIdle
    /\ LitIdle
    /\ RegIdle
    /\ remote_socket = NoSock
    /\ sockst = [n \in SockIds |-> FreeSock]
    /\ pc = [t \in callers |-> "idle"]
    /\ op = [t \in callers |-> "check_output"]
    /\ rsock = [t \in callers |-> NoSock]
    /\ attempts = [t \in callers |-> 0]
    /\ log = [t \in callers |-> <<>>]
    /\ ret = [t \in callers |-> Ret("")]

InitSock == InitSockFor({1}) /\ budget = MaxCalls

InitSockConc == InitSockFor(Threads) /\ budget = Cardinality(Threads)

NextSock ==
    \/ \E t \in DOMAIN pc, o \in Ops : Call(t, o)
    \/ \E t \in DOMAIN pc : TestSend(t)
    \/ \E t \in DOMAIN pc : TestYes(t)
    \/ \E t \in DOMAIN pc : TestOther(t)
    \/ \E t \in DOMAIN pc : TestNone(t)
    \/ \E t \in DOMAIN pc : StartServer(t)
    \/ \E t \in DOMAIN pc : CreateYes(t)
    \/ \E t \in DOMAIN pc : CreateOther(t)
    \/ \E t \in DOMAIN pc : CreateNone(t)
    \/ \E t \in DOMAIN pc : SendRequest(t)
    \/ \E t \in DOMAIN pc, r \in AllReplies : Recv(t, r)
    \/ \E n \in SockIds : Finalized(n)

SpecSock == InitSock /\ [][NextSock]_vars

SpecSockConc == InitSockConc /\ [][NextSock]_vars

-----------------------------------------------------------------------------
(***************************************************************************)
(* SpecSockLive: the tunneled socket with a caller that keeps running      *)
(*                                                                         *)
(* connect_to_server has no blocking call: the probe and the test of a new *)
(* socket poll for 1000 ms, the helper is started without waiting for it,  *)
(* and the loop sleeps one second.  So a caller inside connect_to_server   *)
(* takes its next step, whatever the helper does.                          *)
(***************************************************************************)

\* A step of connect_to_server
ConnectStep(t) ==
    \/ TestSend(t)
    \/ TestYes(t)
    \/ TestOther(t)
    \/ TestNone(t)
    \/ StartServer(t)
    \/ CreateYes(t)
    \/ CreateOther(t)
    \/ CreateNone(t)

SpecSockLive == InitSock /\ [][NextSock]_vars /\ WF_vars(ConnectStep(1))

-----------------------------------------------------------------------------
(***************************************************************************)
(* SpecPath: a RemoteHost with some path_map and shared, and one source    *)
(***************************************************************************)

K_a == <<"/", "a">>
K_as == <<"/", "a", "/">>
K_ab == <<"/", "a", "/", "b">>
R_x == <<"/", "x">>
R_xy == <<"/", "x", "/", "y">>
R_xs == <<"/", "x", "/">>

LocalPrefixes == {K_a, K_as, K_ab}
RemotePrefixes == {R_x, R_xy, R_xs}
Entries == LocalPrefixes \X RemotePrefixes

\* The dicts _get_path_map builds: no entry, one entry, two entries with different keys
PathMaps ==
    {<<>>} \cup {<<e>> : e \in Entries}
           \cup {<<e, f>> : <<e, f>> \in {ef \in Entries \X Entries : ef[1][1] # ef[2][1]}}

SharedChoices == {<<>>, <<K_a>>}

\* cwd exists; /a/b may or may not
FsChoices == {{<<"/">>, K_a}, {<<"/">>, K_a, K_ab}}

\* Longest remainder after the remote prefix of a path of the remote host
MaxTailLen == 2

\* Paths as the remote host names them: a remote prefix and a remainder
RemotePaths ==
    {r \o t : r \in RemotePrefixes,
              t \in UNION {[1..n -> {SEP, BACKSLASH, "a"}] : n \in 0..MaxTailLen}}

Sources == UNION {[1..n -> PathChars] : n \in 1..MaxPathLen} \cup RemotePaths

SockIdle ==
    /\ remote_socket = NoSock
    /\ sockst = <<>>
    /\ pc = <<>>
    /\ op = <<>>
    /\ rsock = <<>>
    /\ attempts = <<>>
    /\ log = <<>>
    /\ ret = <<>>
    /\ budget = 0

InitPath ==
    /\ SockIdle
    /\ JobIdle
    /\ RunIdle
    /\ XferIdle
    /\ ResIdle
    /\ TaskIdle
    /\ LitIdle
    /\ RegIdle
    /\ path_map \in PathMaps
    /\ shared_dirs \in SharedChoices
    /\ fs \in FsChoices
    /\ source \in Sources
    /\ phase = "fresh"
    /\ result = Ret(<<>>)

\* map_path(source)
MapPath ==
    /\ phase = "fresh"
    /\ result' = _map_var(source)
    /\ phase' = "mapped"
    /\ UNCHANGED <<path_map, shared_dirs, fs, source, sockVars, regVars, litVars, taskVars, resVars, xferVars, runVars, jobVars>>

\* reverse_map_path of what map_path returned
ReverseMapPath ==
    /\ phase = "mapped"
    /\ result.ok
    /\ result' = _reverse_map_var(result.val)
    /\ phase' = "reversed"
    /\ UNCHANGED <<path_map, shared_dirs, fs, source, sockVars, regVars, litVars, taskVars, resVars, xferVars, runVars, jobVars>>

\* is_shared(source)
IsShared ==
    /\ phase = "fresh"
    /\ result' = Ret(is_shared(source))
    /\ phase' = "shared"
    /\ UNCHANGED <<path_map, shared_dirs, fs, source, sockVars, regVars, litVars, taskVars, resVars, xferVars, runVars, jobVars>>

\* reverse_map_path(source)
ReverseMapInput ==
    /\ phase = "fresh"
    /\ result' = _reverse_map_var(source)
    /\ phase' = "reversed_input"
    /\ UNCHANGED <<path_map, shared_dirs, fs, source, sockVars, regVars, litVars, taskVars, resVars, xferVars, runVars, jobVars>>

NextPath == MapPath \/ ReverseMapPath \/ IsShared \/ ReverseMapInput

SpecPath == InitPath /\ [][NextPath]_vars

-----------------------------------------------------------------------------
(***************************************************************************)
(* The resolver (Host._get_config) and the registry (Host.host_instances)  *)
(***************************************************************************)

\* Host(...) calls, resets and engine stops in one run
MaxRegOps == 3

\* A key that a dict does not have, an attribute that an object does not have
NoKey == ""
Unset == -1
None == 0

\* "alias in env.sos_dict['CONFIG']['hosts']"
InHosts(C, n) == \E i \in 1..Len(C.hosts) : C.hosts[i].name = n

\* env.sos_dict['CONFIG']['hosts'][n]
HostEntry(C, n) == C.hosts[CHOOSE i \in 1..Len(C.hosts) : C.hosts[i].name = n]

Resolved(C, v) == [ok |-> TRUE, val |-> v, C |-> C]
Undefined(C, e) == [ok |-> FALSE, val |-> e, C |-> C]

\* The first entry of hosts that is this machine by its key or by its
\* address, else the host name itself
_detect_host(C, hn) ==
    LET m == {i \in 1..Len(C.hosts) : C.hosts[i].name = hn \/ C.hosts[i].address = hn}
    IN  IF m = {} THEN hn
        ELSE C.hosts[CHOOSE i \in m : \A j \in m : i <= j].name

\* The top-level key localhost if there is one, and it must name an entry
\* of hosts; else the key is set to "localhost"
_get_local_host(C) ==
    IF C.localhost # NoKey
    THEN IF ~InHosts(C, C.localhost)
         THEN Undefined(C, "Undefined localhost")
         ELSE Resolved(C, C.localhost)
    ELSE Resolved([C EXCEPT !.localhost = "localhost"], "localhost")

\* The alias if hosts has it; the local host for "" and "localhost"; else
\* the alias becomes an entry of hosts with itself as address
_get_remote_host(C, alias) ==
    IF alias = "" \/ alias = "localhost" THEN _get_local_host(C)
    ELSE IF InHosts(C, alias) THEN Resolved(C, alias)
    ELSE Resolved([C EXCEPT !.hosts = Append(@, [name |-> alias, address |-> alias, queue_type |-> NoKey])],
                  alias)

\* "s in cfg[n]" for the sections shared and paths of an entry of hosts
Has(e, s) == s \in DOMAIN e

\* cfg[n]["shared"] and cfg[n]["paths"]: dicts name -> directory, in insertion
\* order, empty when the entry has no such section
Section(e, s) == IF Has(e, s) THEN e[s] ELSE <<>>

\* normalize_value of _get_config (nothing to interpolate)
normalize_value(x) == IF EndsWith(x, SEP) THEN x ELSE x \o <<SEP>>

\* The names of section l that section r has too, in the order of l
Common(l, r) == SelectSeq(Keys(l), LAMBDA k : \E i \in 1..Len(r) : r[i][1] = k)

\* config["shared"] made of the shared sections of the local and the remote
\* entry
SharedOf(L, R) ==
    [i \in 1..Len(Common(Section(L, "shared"), Section(R, "shared"))) |->
        normalize_value(Lookup(Section(L, "shared"), Common(Section(L, "shared"), Section(R, "shared"))[i]))]

\* The literals "local -> remote" for the common names of a section
LiteralsOf(l, r) ==
    [i \in 1..Len(Common(l, r)) |->
        normalize_value(Lookup(l, Common(l, r)[i])) \o ARROW \o normalize_value(Lookup(r, Common(l, r)[i]))]

\* config["path_map"] made of the shared and the paths sections
PathMapOf(L, R) ==
    LiteralsOf(Section(L, "shared"), Section(R, "shared"))
        \o LiteralsOf(Section(L, "paths"), Section(R, "paths"))

\* self.alias and self.config: address and queue_type, and path_map and
\* shared where the config gets these keys (keys).  path_map is a list of
\* literals "local -> remote".  No entry of hosts has pem_file.
_get_config(C0, hn, alias) ==
    LET l == _get_local_host(C0)
    IN  IF ~l.ok THEN l
        ELSE
        LET DETECTED == _detect_host(l.C, hn)
            r == _get_remote_host(l.C, alias)
        IN  IF ~r.ok THEN r
            ELSE
            LET C1 == r.C
                REMOTE == r.val
                LOCAL_ == IF l.val = "localhost" /\ InHosts(C1, DETECTED) THEN DETECTED ELSE l.val
            IN  IF LOCAL_ = "localhost" /\ REMOTE = "localhost"
                THEN Resolved(C1, [alias |-> "localhost", address |-> "localhost", queue_type |-> NoKey,
                                  keys |-> {}, path_map |-> <<>>, shared |-> <<>>])
                ELSE IF ~InHosts(C1, LOCAL_) THEN Undefined(C1, "Undefined local host")
                ELSE IF ~InHosts(C1, REMOTE) THEN Undefined(C1, "Undefined remote host")
                ELSE
                LET same_host == LOCAL_ = REMOTE
                    cloned == /\ same_host
                              /\ LOCAL_ # "localhost"
                              /\ LOCAL_ # DETECTED
                              /\ ~InHosts(C1, DETECTED)
                    C2 == IF cloned
                          THEN [C1 EXCEPT !.hosts = Append(@, [HostEntry(C1, LOCAL_) EXCEPT !.name = DETECTED])]
                          ELSE C1
                    no_map == \/ same_host
                              \/ HostEntry(C2, REMOTE).address = NoKey
                              \/ HostEntry(C2, REMOTE).address = "localhost"
                    shared == SharedOf(HostEntry(C2, LOCAL_), HostEntry(C2, REMOTE))
                IN  Resolved(C2, [alias |-> REMOTE,
                                  address |-> HostEntry(C1, REMOTE).address,
                                  queue_type |-> HostEntry(C1, REMOTE).queue_type,
                                  keys |-> IF no_map \/ shared # <<>> THEN {"path_map", "shared"} ELSE {"path_map"},
                                  path_map |-> IF no_map THEN <<>>
                                               ELSE PathMapOf(HostEntry(C2, LOCAL_), HostEntry(C2, REMOTE)),
                                  shared |-> IF no_map THEN <<"/">> ELSE shared])

\* "self.alias in self.host_instances"
Cached(A) == A \in DOMAIN host_instances

\* self.host_instances[self.alias] = agent
Store(A, n) == [k \in DOMAIN host_instances \cup {A} |-> IF k = A THEN n ELSE host_instances[k]]

NoInstances == [k \in {} |-> None]

NewHostObject(alias, start_engine) ==
    [arg |-> alias, start_engine |-> start_engine, since |-> 0,
     alias |-> NoKey, address |-> NoKey, _engine_type |-> NoKey,
     task_engine |-> None, workflow_engine |-> None,
     _host_agent |-> None, _task_engine |-> Unset]

Event(e, t, h, ok, err, started) ==
    [ev |-> e, by |-> t, arg |-> h.arg, start_engine |-> h.start_engine, since |-> h.since,
     ok |-> ok, err |-> err,
     alias |-> h.alias, agent |-> h._host_agent, started |-> started]

\* Host(...) of thread t ends: it returned the Host object, or raised
Finish(t, h, ok, err, started) ==
    /\ hpc' = [hpc EXCEPT ![t] = "idle"]
    /\ host' = [host EXCEPT ![t] = h]
    /\ hist' = Append(hist, Event("lookup", t, h, ok, err, started))

\* Host(alias, start_engine)
NewHost(t, alias, start_engine) ==
    /\ hpc[t] = "idle"
    /\ quota > 0
    /\ quota' = quota - 1
    /\ hpc' = [hpc EXCEPT ![t] = "config"]
    /\ host' = [host EXCEPT ![t] = [NewHostObject(alias, start_engine) EXCEPT !.since = Len(hist)]]
    /\ UNCHANGED <<CONFIG, hostname, host_instances, agents, engines, hist, aliases, pathVars, sockVars, litVars, taskVars, resVars, xferVars, runVars, jobVars>>

\* self._get_config(alias)
GetConfig(t) ==
    /\ hpc[t] = "config"
    /\ LET r == _get_config(CONFIG, hostname, host[t].arg)
       IN  /\ CONFIG' = r.C
           /\ IF r.ok
              THEN /\ host' = [host EXCEPT ![t].alias = r.val.alias,
                                           ![t].address = r.val.address,
                                           ![t]._engine_type = IF r.val.queue_type = NoKey THEN "process"
                                                               ELSE r.val.queue_type]
                   /\ hpc' = [hpc EXCEPT ![t] = "check"]
                   /\ UNCHANGED hist
              ELSE Finish(t, host[t], FALSE, r.val, FALSE)
    /\ UNCHANGED <<hostname, host_instances, agents, engines, aliases, quota, pathVars, sockVars, litVars, taskVars, resVars, xferVars, runVars, jobVars>>

\* "if self.alias not in self.host_instances or (hasattr(agent, '_task_engine')
\*  and agent._task_engine._is_stopped)"
CheckAgent(t) ==
    /\ hpc[t] = "check"
    /\ LET A == host[t].alias
       IN  IF ~Cached(A)
           THEN hpc' = [hpc EXCEPT ![t] = "build"] /\ UNCHANGED <<host, hist>>
           ELSE LET e == agents[host_instances[A]]._task_engine
                IN  IF e = Unset
                    THEN hpc' = [hpc EXCEPT ![t] = "bind"] /\ UNCHANGED <<host, hist>>
                    ELSE IF e = None
                    THEN Finish(t, host[t], FALSE, "AttributeError", FALSE)
                    ELSE /\ hpc' = [hpc EXCEPT ![t] = IF engines[e].st = "stopped" THEN "build" ELSE "bind"]
                         /\ UNCHANGED <<host, hist>>
    /\ UNCHANGED <<CONFIG, hostname, host_instances, agents, engines, aliases, quota, pathVars, sockVars, litVars, taskVars, resVars, xferVars, runVars, jobVars>>

\* self.host_instances[self.alias] = LocalHost(...) or RemoteHost(...)
Build(t) ==
    /\ hpc[t] = "build"
    /\ IF host[t].address = NoKey
       THEN /\ Finish(t, host[t], FALSE, "KeyError", FALSE)
            /\ UNCHANGED <<agents, host_instances>>
       ELSE /\ agents' = Append(agents, [kind |-> IF host[t].address = "localhost" THEN "LocalHost" ELSE "RemoteHost",
                                         alias |-> host[t].alias,
                                         _task_engine |-> Unset,
                                         _workflow_engine |-> Unset])
            /\ host_instances' = Store(host[t].alias, Len(agents) + 1)
            /\ hpc' = [hpc EXCEPT ![t] = "engines"]
            /\ UNCHANGED <<host, hist>>
    /\ UNCHANGED <<CONFIG, hostname, engines, aliases, quota, pathVars, sockVars, litVars, taskVars, resVars, xferVars, runVars, jobVars>>

\* RemoteHost.__init__: test_connection() is not "OK"
BuildFails(t) ==
    /\ hpc[t] = "build"
    /\ host[t].address \notin {NoKey, "localhost"}
    /\ Finish(t, host[t], FALSE, "RuntimeError", FALSE)
    /\ UNCHANGED <<CONFIG, hostname, host_instances, agents, engines, aliases, quota, pathVars, sockVars, litVars, taskVars, resVars, xferVars, runVars, jobVars>>

\* self._get_task_and_workflow_engine(): the built-in pair, or the plugins
\* of self._engine_type, each of which loads or does not
MakeEngines(t, task_loads, workflow_loads) ==
    /\ hpc[t] = "engines"
    /\ host[t]._engine_type = "process" => task_loads /\ workflow_loads
    /\ LET A == host[t].alias
       IN  IF ~Cached(A)
           THEN Finish(t, host[t], FALSE, "KeyError", FALSE) /\ UNCHANGED engines
           ELSE IF ~task_loads /\ ~workflow_loads
           THEN Finish(t, host[t], FALSE, "ValueError", FALSE) /\ UNCHANGED engines
           ELSE /\ engines' = IF task_loads
                              THEN Append(engines, [agent |-> host_instances[A], st |-> "new"])
                              ELSE engines
                /\ host' = [host EXCEPT ![t].task_engine = IF task_loads THEN Len(engines) + 1 ELSE None,
                                        ![t].workflow_engine = IF workflow_loads THEN host_instances[A] ELSE None]
                /\ hpc' = [hpc EXCEPT ![t] = "attach_task"]
                /\ UNCHANGED hist
    /\ UNCHANGED <<CONFIG, hostname, host_instances, agents, aliases, quota, pathVars, sockVars, litVars, taskVars, resVars, xferVars, runVars, jobVars>>

\* self.host_instances[self.alias]._task_engine = task_engine
AttachTask(t) ==
    /\ hpc[t] = "attach_task"
    /\ IF ~Cached(host[t].alias)
       THEN Finish(t, host[t], FALSE, "KeyError", FALSE) /\ UNCHANGED agents
       ELSE /\ agents' = [agents EXCEPT ![host_instances[host[t].alias]]._task_engine = host[t].task_engine]
            /\ hpc' = [hpc EXCEPT ![t] = "attach_workflow"]
            /\ UNCHANGED <<host, hist>>
    /\ UNCHANGED <<CONFIG, hostname, host_instances, engines, aliases, quota, pathVars, sockVars, litVars, taskVars, resVars, xferVars, runVars, jobVars>>

\* self.host_instances[self.alias]._workflow_engine = workflow_engine
AttachWorkflow(t) ==
    /\ hpc[t] = "attach_workflow"
    /\ IF ~Cached(host[t].alias)
       THEN Finish(t, host[t], FALSE, "KeyError", FALSE) /\ UNCHANGED agents
       ELSE /\ agents' = [agents EXCEPT ![host_instances[host[t].alias]]._workflow_engine = host[t].workflow_engine]
            /\ hpc' = [hpc EXCEPT ![t] = "bind"]
            /\ UNCHANGED <<host, hist>>
    /\ UNCHANGED <<CONFIG, hostname, host_instances, engines, aliases, quota, pathVars, sockVars, litVars, taskVars, resVars, xferVars, runVars, jobVars>>

\* self._host_agent = self.host_instances[self.alias], and
\* self._task_engine if the agent has one
Bind(t) ==
    /\ hpc[t] = "bind"
    /\ IF ~Cached(host[t].alias)
       THEN Finish(t, host[t], FALSE, "KeyError", FALSE)
       ELSE /\ host' = [host EXCEPT ![t]._host_agent = host_instances[host[t].alias],
                                    ![t]._task_engine = agents[host_instances[host[t].alias]]._task_engine]
            /\ hpc' = [hpc EXCEPT ![t] = "start"]
            /\ UNCHANGED hist
    /\ UNCHANGED <<CONFIG, hostname, host_instances, agents, engines, aliases, quota, pathVars, sockVars, litVars, taskVars, resVars, xferVars, runVars, jobVars>>

\* "if start_engine and self._task_engine is not None and not
\*  self._task_engine.is_alive(): self._task_engine.start()"
StartEngine(t) ==
    /\ hpc[t] = "start"
    /\ LET e == host[t]._task_engine
       IN  IF ~host[t].start_engine \/ e = None
           THEN Finish(t, host[t], TRUE, "", FALSE) /\ UNCHANGED engines
           ELSE IF e = Unset
           THEN Finish(t, host[t], FALSE, "AttributeError", FALSE) /\ UNCHANGED engines
           ELSE IF engines[e].st = "running"
           THEN Finish(t, host[t], TRUE, "", FALSE) /\ UNCHANGED engines
           ELSE IF engines[e].st = "stopped"
           THEN Finish(t, host[t], FALSE, "RuntimeError", FALSE) /\ UNCHANGED engines
           ELSE /\ engines' = [engines EXCEPT ![e].st = "running"]
                /\ Finish(t, host[t], TRUE, "", TRUE)
    /\ UNCHANGED <<CONFIG, hostname, host_instances, agents, aliases, quota, pathVars, sockVars, litVars, taskVars, resVars, xferVars, runVars, jobVars>>

\* Host.reset(), called while no Host(...) is under way
Reset ==
    /\ \A t \in DOMAIN hpc : hpc[t] = "idle"
    /\ quota > 0
    /\ quota' = quota - 1
    /\ agents' = [n \in DOMAIN agents |->
                    IF \E k \in DOMAIN host_instances : host_instances[k] = n
                    THEN [agents[n] EXCEPT !._task_engine = Unset]
                    ELSE agents[n]]
    /\ host_instances' = NoInstances
    /\ hist' = Append(hist, Event("reset", 0, NewHostObject(NoKey, FALSE), TRUE, "", FALSE))
    /\ UNCHANGED <<CONFIG, hostname, engines, hpc, host, aliases, pathVars, sockVars, litVars, taskVars, resVars, xferVars, runVars, jobVars>>

\* The thread of a running task engine ends
EngineStops(e) ==
    /\ e \in DOMAIN engines
    /\ engines[e].st = "running"
    /\ quota > 0
    /\ quota' = quota - 1
    /\ engines' = [engines EXCEPT ![e].st = "stopped"]
    /\ hist' = Append(hist, Event("stop", 0, [NewHostObject(NoKey, FALSE) EXCEPT !._host_agent = engines[e].agent],
                                  TRUE, "", FALSE))
    /\ UNCHANGED <<CONFIG, hostname, host_instances, agents, hpc, host, aliases, pathVars, sockVars, litVars, taskVars, resVars, xferVars, runVars, jobVars>>

\* The hosts section of the configurations of the registry runs: this
\* machine, a remote host, a remote host with a queue_type
RegHosts ==
    << [name |-> "a", address |-> "localhost", queue_type |-> NoKey],
       [name |-> "b", address |-> "srv", queue_type |-> NoKey],
       [name |-> "q", address |-> "hpc", queue_type |-> "pbs"] >>

RegAliases == {"a", "b", "q"}

InitRegFor(callers) ==
    /\ PathIdle
    /\ JobIdle
    /\ RunIdle
    /\ XferIdle
    /\ ResIdle
    /\ TaskIdle
    /\ LitIdle
    /\ SockIdle
    /\ CONFIG \in {[localhost |-> l, hosts |-> RegHosts] : l \in {NoKey, "a"}}
    /\ hostname \in {"a", "m"}
    /\ host_instances = NoInstances
    /\ agents = <<>>
    /\ engines = <<>>
    /\ hpc = [t \in callers |-> "idle"]
    /\ host = [t \in callers |-> NewHostObject(NoKey, FALSE)]
    /\ hist = <<>>

InitReg == InitRegFor({1}) /\ aliases = RegAliases /\ quota = MaxRegOps

InitRegConc == InitRegFor(Threads) /\ aliases = {"b"} /\ hostname = "a" /\ quota = Cardinality(Threads)

NextReg ==
    \/ \E t \in DOMAIN hpc, alias \in aliases, start_engine \in BOOLEAN : NewHost(t, alias, start_engine)
    \/ \E t \in DOMAIN hpc : GetConfig(t)
    \/ \E t \in DOMAIN hpc : CheckAgent(t)
    \/ \E t \in DOMAIN hpc : Build(t)
    \/ \E t \in DOMAIN hpc : BuildFails(t)
    \/ \E t \in DOMAIN hpc, task_loads \in BOOLEAN, workflow_loads \in BOOLEAN :
            MakeEngines(t, task_loads, workflow_loads)
    \/ \E t \in DOMAIN hpc : AttachTask(t)
    \/ \E t \in DOMAIN hpc : AttachWorkflow(t)
    \/ \E t \in DOMAIN hpc : Bind(t)
    \/ \E t \in DOMAIN hpc : StartEngine(t)
    \/ Reset
    \/ \E e \in DOMAIN engines : EngineStops(e)

SpecReg == InitReg /\ [][NextReg]_vars

SpecRegConc == InitRegConc /\ [][NextReg]_vars

-----------------------------------------------------------------------------
(***************************************************************************)
(* SpecLit: RemoteHost.__init__ reads the path_map literals of its config  *)
(***************************************************************************)

\* Longest literal drawn by Init
MaxLitLen == 8

\* The characters literals are made of: those of the separator
LitChars == {" ", "-", ">"}


\* "sub in v"
Contains(v, sub) == \E i \in 1..(Len(v) - Len(sub) + 1) : SubSeq(v, i, i + Len(sub) - 1) = sub

\* v.count(sub): occurrences that do not overlap, from the left
RECURSIVE CountSub(_, _)
CountSub(v, sub) ==
    IF Len(v) < Len(sub) THEN 0
    ELSE IF StartsWith(v, sub) THEN 1 + CountSub(Drop(v, Len(sub)), sub)
    ELSE CountSub(Tail(v), sub)

\* v.split(sub), with acc the piece read so far
RECURSIVE SplitFrom(_, _, _)
SplitFrom(v, sub, acc) ==
    IF Len(v) < Len(sub) THEN <<acc \o v>>
    ELSE IF StartsWith(v, sub) THEN <<acc>> \o SplitFrom(Drop(v, Len(sub)), sub, <<>>)
    ELSE SplitFrom(Tail(v), sub, Append(acc, v[1]))

Split(v, sub) == SplitFrom(v, sub, <<>>)

\* res[k] = val on a dict kept in insertion order
DictSet(res, k, val) ==
    IF \E i \in 1..Len(res) : res[i][1] = k
    THEN [i \in 1..Len(res) |-> IF res[i][1] = k THEN <<k, val>> ELSE res[i]]
    ELSE Append(res, <<k, val>>)

\* A literal that is accepted whatever its number of separators
BadLiteralNoCount(v) == ~Contains(v, ARROW)

\* The two tests of the loop of _get_path_map that raise ValueError
BadLiteral(v) == ~Contains(v, ARROW) \/ CountSub(v, ARROW) > 1

\* The loop of _get_path_map over the list, from index i, with the dict so far
RECURSIVE PathMapFrom(_, _, _)
PathMapFrom(lits, i, res) ==
    IF i > Len(lits) THEN [ok |-> TRUE, val |-> res, called |-> TRUE]
    ELSE IF BadLiteral(lits[i])
    THEN [ok |-> FALSE, val |-> lits[i], called |-> TRUE]
    ELSE PathMapFrom(lits, i + 1, DictSet(res, Split(lits[i], ARROW)[1], Split(lits[i], ARROW)[2]))

\* RemoteHost._get_path_map for a list of strings; an error carries the
\* string its message names
_get_path_map(lits) == PathMapFrom(lits, 1, <<>>)

Literals == UNION {[1..n -> LitChars] : n \in 0..MaxLitLen}

GoodLiteral == <<"a">> \o ARROW \o <<"a">>

InitLit ==
    /\ PathIdle
    /\ JobIdle
    /\ RunIdle
    /\ XferIdle
    /\ ResIdle
    /\ TaskIdle
    /\ SockIdle
    /\ RegIdle
    /\ literals \in {<<v>> : v \in Literals} \cup {<<GoodLiteral, v>> : v \in Literals}
    /\ built = [ok |-> TRUE, val |-> <<>>, called |-> FALSE]

\* RemoteHost(config): self.path_map = self._get_path_map()
NewRemoteHost ==
    /\ ~built.called
    /\ built' = _get_path_map(literals)
    /\ UNCHANGED <<literals, pathVars, sockVars, regVars, taskVars, resVars, xferVars, runVars, jobVars>>

NextLit == NewRemoteHost

SpecLit == InitLit /\ [][NextLit]_vars

-----------------------------------------------------------------------------
(***************************************************************************)
(* SpecTask: prepare_task of a LocalHost and of a RemoteHost with the same *)
(* ceilings, for the same task                                             *)
(***************************************************************************)

\* Largest amount of mem (bytes) and of cores drawn by Init
MaxAmount == 2

Amounts == {None} \cup (1..MaxAmount)

\* HH:MM:SS as <<hours, minutes, seconds>>
WallTimes == {<<0, 0, 59>>, <<0, 0, 60>>, <<0, 1, 0>>, <<1, 0, 0>>}

\* No walltime in the dict
NoTime == <<>>

\* utils.expand_time of HH:MM:SS: the seconds
expand_time(w) == w[1] * 3600 + w[2] * 60 + w[3]

NotCalled == [called |-> FALSE, ok |-> TRUE, val |-> FALSE, logged |-> ""]
Returned(v, logged) == [called |-> TRUE, ok |-> TRUE, val |-> v, logged |-> logged]
Raised(e) == [called |-> TRUE, ok |-> FALSE, val |-> FALSE, logged |-> e]

\* A LocalHost.prepare_task that also refuses a request equal to the ceiling
local_prepare_task_inclusive(cfg, req, isfile) ==
    IF ~isfile THEN Raised("Missing task definition")
    ELSE IF cfg.max_mem # None /\ req.mem # None /\ cfg.max_mem <= req.mem
    THEN Returned(FALSE, "mem")
    ELSE IF cfg.max_cores # None /\ req.cores # None /\ cfg.max_cores <= req.cores
    THEN Returned(FALSE, "cores")
    ELSE IF /\ cfg.max_walltime # NoTime
            /\ req.walltime # NoTime
            /\ expand_time(cfg.max_walltime) <= expand_time(req.walltime)
    THEN Returned(FALSE, "walltime")
    ELSE Returned(TRUE, "")

\* LocalHost.prepare_task: the task file, the three ceilings in order, then
\* the task is set pending and True is returned
local_prepare_task(cfg, req, isfile) ==
    IF ~isfile THEN Raised("Missing task definition")
    ELSE IF cfg.max_mem # None /\ req.mem # None /\ cfg.max_mem < req.mem
    THEN Returned(FALSE, "mem")
    ELSE IF cfg.max_cores # None /\ req.cores # None /\ cfg.max_cores < req.cores
    THEN Returned(FALSE, "cores")
    ELSE IF /\ cfg.max_walltime # NoTime
            /\ req.walltime # NoTime
            /\ expand_time(cfg.max_walltime) < expand_time(req.walltime)
    THEN Returned(FALSE, "walltime")
    ELSE Returned(TRUE, "")

\* RemoteHost._prepare_task: the task file, the three ceilings in order,
\* then the staging of inputs and of the job file, which works or raises
_prepare_task(cfg, req, isfile, staged) ==
    IF ~isfile THEN Raised("Missing task definition")
    ELSE IF cfg.max_mem # None /\ req.mem # None /\ cfg.max_mem < req.mem
    THEN Raised("mem")
    ELSE IF cfg.max_cores # None /\ req.cores # None /\ cfg.max_cores < req.cores
    THEN Raised("cores")
    ELSE IF /\ cfg.max_walltime # NoTime
            /\ req.walltime # NoTime
            /\ expand_time(cfg.max_walltime) < expand_time(req.walltime)
    THEN Raised("walltime")
    ELSE IF ~staged THEN Raised("staging")
    ELSE Returned(TRUE, "")

\* RemoteHost.prepare_task: True, or the error is logged and False returned
remote_prepare_task(cfg, req, isfile, staged) ==
    LET r == _prepare_task(cfg, req, isfile, staged)
    IN  IF r.ok THEN Returned(TRUE, "") ELSE Returned(FALSE, r.logged)

InitTask ==
    /\ PathIdle
    /\ JobIdle
    /\ RunIdle
    /\ XferIdle
    /\ ResIdle
    /\ SockIdle
    /\ RegIdle
    /\ LitIdle
    /\ limits \in [max_mem : Amounts, max_cores : Amounts, max_walltime : {NoTime} \cup WallTimes]
    /\ request \in [mem : Amounts, cores : Amounts, walltime : {NoTime} \cup WallTimes]
    /\ task_file \in BOOLEAN
    /\ local_ret = NotCalled
    /\ remote_ret = NotCalled

\* LocalHost(config).prepare_task(task_id)
LocalPrepareTask ==
    /\ ~local_ret.called
    /\ local_ret' = local_prepare_task(limits, request, task_file)
    /\ UNCHANGED <<limits, request, task_file, remote_ret, pathVars, sockVars, regVars, litVars, resVars, xferVars, runVars, jobVars>>

\* RemoteHost(config).prepare_task(task_id)
RemotePrepareTask(staged) ==
    /\ ~remote_ret.called
    /\ remote_ret' = remote_prepare_task(limits, request, task_file, staged)
    /\ UNCHANGED <<limits, request, task_file, local_ret, pathVars, sockVars, regVars, litVars, resVars, xferVars, runVars, jobVars>>

NextTask ==
    \/ LocalPrepareTask
    \/ \E staged \in BOOLEAN : RemotePrepareTask(staged)

SpecTask == InitTask /\ [][NextTask]_vars

-----------------------------------------------------------------------------
(***************************************************************************)
(* SpecResolve: Host._get_config on a configuration, a machine and an      *)
(* alias, and once more on the configuration it leaves                     *)
(***************************************************************************)

\* Calls of _get_config in one run
MaxResolves == 2

EntryOf(n, a) == [name |-> n, address |-> a, queue_type |-> NoKey]

\* An entry of hosts is missing, or has no address, or one of two addresses
EntryChoices(n) == {<<>>} \cup {<<EntryOf(n, a)>> : a \in {NoKey, "localhost", "srv"}}

\* hosts with some of the keys a, b, localhost, in this order
HostsChoices ==
    {ea \o eb \o el : ea \in EntryChoices("a"), eb \in EntryChoices("b"), el \in EntryChoices("localhost")}

InitResolve ==
    /\ PathIdle
    /\ JobIdle
    /\ RunIdle
    /\ XferIdle
    /\ SockIdle
    /\ LitIdle
    /\ TaskIdle
    /\ CONFIG \in [localhost : {NoKey, "localhost", "a", "z"}, hosts : HostsChoices]
    /\ hostname \in {"a", "m", "localhost"}
    /\ host_instances = NoInstances
    /\ agents = <<>>
    /\ engines = <<>>
    /\ hpc = <<>>
    /\ host = <<>>
    /\ hist = <<>>
    /\ aliases = {}
    /\ quota = 0
    /\ res_arg \in {"", "localhost", "a", "b", "z"}
    /\ resolutions = <<>>

\* "REMOTE = self._get_remote_host(alias); self.alias = REMOTE" of
\* _get_config: whether _get_remote_host was called (_get_local_host did
\* not raise before), whether it returned, and what
REMOTE_(C, alias) ==
    IF ~_get_local_host(C).ok THEN [called |-> FALSE, ok |-> FALSE, val |-> NoKey]
    ELSE [called |-> TRUE,
          ok |-> _get_remote_host(_get_local_host(C).C, alias).ok,
          val |-> _get_remote_host(_get_local_host(C).C, alias).val]

\* Host._get_config(alias)
Resolve ==
    /\ Len(resolutions) < MaxResolves
    /\ LET r == _get_config(CONFIG, hostname, res_arg)
       IN  /\ CONFIG' = r.C
           /\ resolutions' = Append(resolutions, [before |-> CONFIG, ok |-> r.ok, val |-> r.val,
                                                  remote |-> REMOTE_(CONFIG, res_arg)])
    /\ UNCHANGED <<hostname, host_instances, agents, engines, hpc, host, hist, aliases, quota, res_arg,
                   pathVars, sockVars, litVars, taskVars, xferVars, runVars, jobVars>>

NextResolve == Resolve

SpecResolve == InitResolve /\ [][NextResolve]_vars

-----------------------------------------------------------------------------
(***************************************************************************)
(* SpecXfer: send_to_host and receive_from_host of a RemoteHost            *)
(*                                                                         *)
(* "/" and the working directory are directories, every other name of fs   *)
(* is a regular file, and the items are names of regular files or of       *)
(* nothing.  A transfer command that exits 0 has put the file where rsync  *)
(* (and mv, for the rename variant) puts it; one that exits non-zero has   *)
(* changed nothing.  There are no symbolic links.                          *)
(***************************************************************************)

\* Items of one call
MaxItems == 2

\* ord(c)
Ord(c) ==
    CASE c = "/" -> 47
      [] c = "\\" -> 92
      [] c = "a" -> 97
      [] c = "b" -> 98
      [] c = "x" -> 120
      [] c = "y" -> 121

\* a < b for two str
RECURSIVE StrLess(_, _)
StrLess(a, b) ==
    IF b = <<>> THEN FALSE
    ELSE IF a = <<>> THEN TRUE
    ELSE IF a[1] # b[1] THEN Ord(a[1]) < Ord(b[1])
    ELSE StrLess(Tail(a), Tail(b))

RECURSIVE Insert(_, _)
Insert(x, s) ==
    IF s = <<>> THEN <<x>>
    ELSE IF StrLess(x, s[1]) THEN <<x>> \o s
    ELSE <<s[1]>> \o Insert(x, Tail(s))

\* sorted(s) for a list of different str
RECURSIVE Sorted(_)
Sorted(s) == IF s = <<>> THEN <<>> ELSE Insert(s[1], Sorted(Tail(s)))

\* The index of the last "/" of p, or 0
LastSep(p) == IF \E i \in 1..Len(p) : p[i] = SEP
              THEN CHOOSE i \in 1..Len(p) : p[i] = SEP /\ \A j \in (i + 1)..Len(p) : p[j] # SEP
              ELSE 0

\* os.path.basename
Basename(p) == Drop(p, LastSep(p))

RECURSIVE RStripSep(_)
RStripSep(p) == IF p # <<>> /\ EndsWith(p, SEP) THEN RStripSep(SubSeq(p, 1, Len(p) - 1)) ELSE p

\* os.path.dirname: the head, without its trailing slashes unless it is all slashes
Dirname(p) ==
    LET head == Slice(p, LastSep(p))
    IN  IF RStripSep(head) = <<>> THEN head ELSE RStripSep(head)

\* f[k] = v on a function
Put(f, k, v) == [x \in DOMAIN f \cup {k} |-> IF x = k THEN v ELSE f[x]]

\* del f[k]
Del(f, k) == [x \in DOMAIN f \ {k} |-> f[x]]

\* The regular file a local name stands for
LocalFile(p) == Canon(AbsPath(p))

IsDir(p) == p = <<SEP>> \/ p = cwd

\* x.parent.glob(x.name) for a name without wildcards: the item if it exists
Glob(its) == SelectSeq(its, LAMBDA x : Exists(AbsPath(x)))

\* RemoteHost._map_path for a list: result.update(self._map_path(src)) for each src
RECURSIVE MapAll(_, _)
MapAll(its, res) ==
    IF its = <<>> THEN Ret(res)
    ELSE LET r == _map_path(its[1])
         IN  IF r.ok THEN MapAll(Tail(its), DictSet(res, r.val[1], r.val[2])) ELSE r

\* RemoteHost._remote_abs
_remote_abs(p) == IF StartsWith(p, <<SEP>>) THEN p ELSE _map_var(cwd).val \o <<SEP>> \o p

\* A transfer command and its exit code; why is "host" when the remote host
\* could not be reached and "nofile" when it does not have the source
Cmd(o, rename, src, dst, rc, why) ==
    [op |-> o, rename |-> rename, source |-> src, dest |-> dst, rc |-> rc, why |-> why]

\* What a call leaves: what it returned or raised, the commands it issued
\* in order, and the files of the side it wrote to
Outcome(r, cmds, files) == [ret |-> r, cmds |-> cmds, files |-> files]

\* One step of the loop of send_to_host or receive_from_host: the source,
\* the destination, whether the step is skipped, and the rename variant
Step(src, dst, skip) == [source |-> src, dest |-> dst, skip |-> skip, rename |-> Basename(src) # Basename(dst)]

\* The file that a send command that exits 0 has written on the remote
\* host: rsync copies it into the directory of dest under its own name, and
\* the rename variant then moves it to dest
Sent(rf, s) ==
    LET inter == Canon(Dirname(s.dest) \o <<SEP>> \o Basename(s.source))
        put == Put(rf, inter, lcontent[LocalFile(s.source)])
    IN  IF s.rename THEN Put(Del(put, inter), Canon(s.dest), put[inter]) ELSE put

\* The file that a receive command that exits 0 has written on this machine
Received(lf, s) ==
    LET inter == Canon(Dirname(AbsPath(s.dest)) \o <<SEP>> \o Basename(s.source))
        put == Put(lf, inter, rcontent[Canon(s.source)])
    IN  IF s.rename THEN Put(Del(put, inter), LocalFile(s.dest), put[inter]) ELSE put

\* The loop of send_to_host from its i-th step; the fail-th command
\* issued exits non-zero
RECURSIVE SendLoop(_, _, _, _, _, _)
SendLoop(steps, i, sent, cmds, rf, fail) ==
    IF i > Len(steps) THEN Outcome(Ret(sent), cmds, rf)
    ELSE LET s == steps[i]
         IN  IF s.skip
             THEN SendLoop(steps, i + 1, DictSet(sent, s.source, s.dest), cmds, rf, fail)
             ELSE IF Len(cmds) + 1 = fail
             THEN Outcome(Raise("RuntimeError"),
                          Append(cmds, Cmd("send", s.rename, s.source, s.dest, 1, "host")), rf)
             ELSE SendLoop(steps, i + 1, DictSet(sent, s.source, s.dest),
                           Append(cmds, Cmd("send", s.rename, s.source, s.dest, 0, "")),
                           Sent(rf, s), fail)

\* The steps of send_to_host for the sources in the given order: the
\* destination is self._remote_abs(sending[source]), and a source that
\* is_shared is skipped
SendSteps(order, sending) ==
    [i \in 1..Len(order) |-> Step(order[i], _remote_abs(Lookup(sending, order[i])), is_shared(order[i]))]

\* send_to_host that takes the sources as the dict has them
send_to_host_unsorted(its, rf, fail) ==
    LET sending == MapAll(Glob(its), <<>>)
    IN  IF ~sending.ok THEN Outcome(sending, <<>>, rf)
        ELSE SendLoop(SendSteps(Keys(sending.val), sending.val), 1, <<>>, <<>>, rf, fail)

\* RemoteHost.send_to_host(items) for a list of str
send_to_host(its, rf, fail) ==
    LET sending == MapAll(Glob(its), <<>>)
    IN  IF ~sending.ok THEN Outcome(sending, <<>>, rf)
        ELSE SendLoop(SendSteps(Sorted(Keys(sending.val)), sending.val), 1, <<>>, <<>>, rf, fail)

\* The dict receiving: {self._remote_abs(y): str(x) for x, y in ...}
RECURSIVE Receiving(_, _)
Receiving(mapped, res) ==
    IF mapped = <<>> THEN res
    ELSE Receiving(Tail(mapped), DictSet(res, _remote_abs(mapped[1][2]), mapped[1][1]))

\* The loop of receive_from_host from its i-th step; the fail-th command
\* issued exits non-zero, and so does rsync for a source that the remote
\* host does not have
RECURSIVE ReceiveLoop(_, _, _, _, _, _)
ReceiveLoop(steps, i, received, cmds, lf, fail) ==
    IF i > Len(steps) THEN Outcome(Ret(received), cmds, lf)
    ELSE LET s == steps[i]
         IN  IF s.skip
             THEN ReceiveLoop(steps, i + 1, DictSet(received, s.dest, s.source), cmds, lf, fail)
             ELSE IF Len(cmds) + 1 = fail \/ Canon(s.source) \notin DOMAIN rcontent
             THEN Outcome(Raise("RuntimeError"),
                          Append(cmds, Cmd("receive", s.rename, s.source, s.dest, 1,
                                           IF Len(cmds) + 1 = fail THEN "host" ELSE "nofile")), lf)
             ELSE ReceiveLoop(steps, i + 1, DictSet(received, s.dest, s.source),
                              Append(cmds, Cmd("receive", s.rename, s.source, s.dest, 0, "")),
                              Received(lf, s), fail)

\* The steps of receive_from_host for the remote sources in the given
\* order: the destination is receiving[source], and it is skipped when it
\* is_shared and has the basename of the source
ReceiveSteps(order, receiving) ==
    [i \in 1..Len(order) |->
        LET s == Step(order[i], Lookup(receiving, order[i]), FALSE)
        IN  [s EXCEPT !.skip = is_shared(s.dest) /\ ~s.rename]]

\* RemoteHost.receive_from_host(items) for a list of str
receive_from_host(its, lf, fail) ==
    LET mapped == MapAll(its, <<>>)
    IN  IF ~mapped.ok THEN Outcome(mapped, <<>>, lf)
        ELSE LET receiving == Receiving(mapped.val, <<>>)
             IN  ReceiveLoop(ReceiveSteps(Sorted(Keys(receiving)), receiving), 1, <<>>, <<>>, lf, fail)

N_b == <<"/", "b">>
N_aa == <<"/", "a", "/", "a">>

\* The regular files there may be, and the names an item may have
FileNames == {N_b, N_aa, K_ab}
ItemNames == FileNames \cup {<<"a">>, <<"b">>}

\* Lists of different items
ItemLists == {s \in UNION {[1..n -> ItemNames] : n \in 1..MaxItems} :
                 \A i, j \in 1..Len(s) : i # j => s[i] # s[j]}

XferMaps == {<<>>, <<<<K_a, R_x>>>>, <<<<K_ab, R_x>>>>, <<<<K_as, R_x>>>>, <<<<K_a, R_xs>>>>,
             <<<<K_a, R_xy>>, <<K_ab, R_x>>>>, <<<<K_ab, R_xy>>, <<N_aa, R_x>>>>}

EDITED == <<"edited">>

InitXfer ==
    /\ SockIdle
    /\ JobIdle
    /\ RunIdle
    /\ ResIdle
    /\ TaskIdle
    /\ LitIdle
    /\ RegIdle
    /\ path_map \in XferMaps
    /\ shared_dirs \in SharedChoices
    /\ fs \in {{<<SEP>>, cwd} \cup F : F \in SUBSET FileNames}
    /\ source = <<>>
    /\ phase = "fresh"
    /\ result = Ret(<<>>)
    /\ items \in ItemLists
    /\ lcontent = [p \in fs \ {<<SEP>>, cwd} |-> p]
    /\ rcontent = <<>>
    /\ calls = <<>>

\* A call: what it returned or raised, the commands it issued, and the
\* files of this machine before it and of the side it wrote to after it
Call_(o, out, before) ==
    [op |-> o, ret |-> out.ret, cmds |-> out.cmds, before |-> before, after |-> out.files]

\* send_to_host(items)
SendToHost(fail) ==
    /\ calls = <<>>
    /\ calls' = Append(calls, Call_("send", send_to_host(items, rcontent, fail), lcontent))
    /\ rcontent' = calls'[Len(calls')].after
    /\ UNCHANGED <<path_map, shared_dirs, fs, source, phase, result, items, lcontent,
                   sockVars, regVars, litVars, taskVars, resVars, runVars, jobVars>>

\* The file of the first item is overwritten between the two calls
Edit ==
    /\ Len(calls) = 1
    /\ LocalFile(items[1]) \in DOMAIN lcontent
    /\ lcontent[LocalFile(items[1])] # EDITED
    /\ lcontent' = [lcontent EXCEPT ![LocalFile(items[1])] = EDITED]
    /\ UNCHANGED <<path_map, shared_dirs, fs, source, phase, result, items, rcontent, calls,
                   sockVars, regVars, litVars, taskVars, resVars, runVars, jobVars>>

\* receive_from_host(items), after the send_to_host(items) that returned
ReceiveFromHost(fail) ==
    /\ Len(calls) = 1
    /\ calls[1].ret.ok
    /\ calls' = Append(calls, Call_("receive", receive_from_host(items, lcontent, fail), lcontent))
    /\ lcontent' = calls'[Len(calls')].after
    /\ fs' = {<<SEP>>, cwd} \cup DOMAIN lcontent'
    /\ UNCHANGED <<path_map, shared_dirs, source, phase, result, items, rcontent,
                   sockVars, regVars, litVars, taskVars, resVars, runVars, jobVars>>

NextXfer ==
    \/ \E fail \in 0..MaxItems : SendToHost(fail)
    \/ Edit
    \/ \E fail \in 0..MaxItems : ReceiveFromHost(fail)

SpecXfer == InitXfer /\ [][NextXfer]_vars

-----------------------------------------------------------------------------
(***************************************************************************)
(* SpecRun: LocalHost.run_command(cmd, wait_for_task, realtime=False)      *)
(*                                                                         *)
(* The processes are the caller, the child that DaemonizedProcess.start()  *)
(* makes (p1), the children of its two forks (p2, p3) and the shell that   *)
(* runs cmd.  A process that exits is a zombie until its parent waits for  *)
(* it; its children get init as parent, and init waits for its children.   *)
(***************************************************************************)

CALLER == "caller"
INIT_ == "init"
Procs == {"p1", "p2", "p3", "cmd"}

NoProc == [st |-> "none", parent |-> "", pc |-> ""]
Running(parent, pc_) == [st |-> "running", parent |-> parent, pc |-> pc_]

\* The processes between p and init, p's parent first
RECURSIVE Ancestors(_, _)
Ancestors(p, n) ==
    IF n = 0 \/ p \notin Procs \/ proc[p].st = "none" THEN {}
    ELSE {proc[p].parent} \cup Ancestors(proc[p].parent, n - 1)

InitRun ==
    /\ PathIdle
    /\ JobIdle
    /\ XferIdle
    /\ SockIdle
    /\ ResIdle
    /\ TaskIdle
    /\ LitIdle
    /\ RegIdle
    /\ wait_for_task \in BOOLEAN
    /\ platform \in {"linux", "darwin", "win32"}
    /\ cpc = "call"
    /\ proc = [p \in Procs |-> NoProc]

Others == <<pathVars, sockVars, regVars, litVars, taskVars, resVars, xferVars, jobVars>>

\* p = subprocess.Popen(cmd, shell=True, **kwargs)
PopenCmd ==
    /\ cpc = "call"
    /\ wait_for_task \/ platform = "win32"
    /\ proc' = [proc EXCEPT !["cmd"] = Running(CALLER, "exit")]
    /\ cpc' = "wait"
    /\ UNCHANGED <<wait_for_task, platform, Others>>

\* p.wait() that returns whether or not the child has terminated
WaitNoBlock ==
    /\ cpc = "wait"
    /\ proc' = [proc EXCEPT !["cmd"].st = IF @ = "zombie" THEN "reaped" ELSE @]
    /\ cpc' = "returned"
    /\ UNCHANGED <<wait_for_task, platform, Others>>

\* p.wait(), and run_command returns
Wait ==
    /\ cpc = "wait"
    /\ proc["cmd"].st = "zombie"
    /\ proc' = [proc EXCEPT !["cmd"].st = "reaped"]
    /\ cpc' = "returned"
    /\ UNCHANGED <<wait_for_task, platform, Others>>

\* p = DaemonizedProcess(cmd, **kwargs); p.start()
Start ==
    /\ cpc = "call"
    /\ ~(wait_for_task \/ platform = "win32")
    /\ proc' = [proc EXCEPT !["p1"] = Running(CALLER, "fork1")]
    /\ cpc' = "join"
    /\ UNCHANGED <<wait_for_task, platform, Others>>

\* p.join() that returns whether or not p1 has exited
JoinNoBlock ==
    /\ cpc = "join"
    /\ proc' = [proc EXCEPT !["p1"].st = IF @ = "zombie" THEN "reaped" ELSE @]
    /\ cpc' = "returned"
    /\ UNCHANGED <<wait_for_task, platform, Others>>

\* p.join(), and run_command returns
Join ==
    /\ cpc = "join"
    /\ proc["p1"].st = "zombie"
    /\ proc' = [proc EXCEPT !["p1"].st = "reaped"]
    /\ cpc' = "returned"
    /\ UNCHANGED <<wait_for_task, platform, Others>>

\* The first os.fork() of run: the child goes on, the parent is to sys.exit(0)
Fork1 ==
    /\ proc["p1"].st = "running" /\ proc["p1"].pc = "fork1"
    /\ proc' = [proc EXCEPT !["p1"].pc = "exit", !["p2"] = Running("p1", "fork2")]
    /\ UNCHANGED <<wait_for_task, platform, cpc, Others>>

\* os.fork() raises OSError: sys.exit(1)
Fork1Fails ==
    /\ proc["p1"].st = "running" /\ proc["p1"].pc = "fork1"
    /\ proc' = [proc EXCEPT !["p1"].pc = "exit"]
    /\ UNCHANGED <<wait_for_task, platform, cpc, Others>>

\* os.setsid(), os.umask(0) and the second os.fork()
Fork2 ==
    /\ proc["p2"].st = "running" /\ proc["p2"].pc = "fork2"
    /\ proc' = [proc EXCEPT !["p2"].pc = "exit", !["p3"] = Running("p2", "popen")]
    /\ UNCHANGED <<wait_for_task, platform, cpc, Others>>

Fork2Fails ==
    /\ proc["p2"].st = "running" /\ proc["p2"].pc = "fork2"
    /\ proc' = [proc EXCEPT !["p2"].pc = "exit"]
    /\ UNCHANGED <<wait_for_task, platform, cpc, Others>>

\* subprocess.Popen(self.cmd, shell=True, close_fds=True); return
PopenDetached ==
    /\ proc["p3"].st = "running" /\ proc["p3"].pc = "popen"
    /\ proc' = [proc EXCEPT !["p3"].pc = "exit", !["cmd"] = Running("p3", "exit")]
    /\ UNCHANGED <<wait_for_task, platform, cpc, Others>>

\* Process p exits (sys.exit, the return of run, the end of cmd): its
\* children become children of init
Exit(p) ==
    /\ proc[p].st = "running" /\ proc[p].pc = "exit"
    /\ proc' = [q \in Procs |->
                   IF q = p THEN [proc[q] EXCEPT !.st = "zombie"]
                   ELSE IF proc[q].st \in {"running", "zombie"} /\ proc[q].parent = p
                   THEN [proc[q] EXCEPT !.parent = INIT_]
                   ELSE proc[q]]
    /\ UNCHANGED <<wait_for_task, platform, cpc, Others>>

\* init waits for a child that has exited
InitReaps(p) ==
    /\ proc[p].st = "zombie" /\ proc[p].parent = INIT_
    /\ proc' = [proc EXCEPT ![p].st = "reaped"]
    /\ UNCHANGED <<wait_for_task, platform, cpc, Others>>

NextRun ==
    \/ PopenCmd
    \/ Wait
    \/ Start
    \/ Join
    \/ Fork1
    \/ Fork1Fails
    \/ Fork2
    \/ Fork2Fails
    \/ PopenDetached
    \/ \E p \in Procs : Exit(p)
    \/ \E p \in Procs : InitReaps(p)

SpecRun == InitRun /\ [][NextRun]_vars

-----------------------------------------------------------------------------
(***************************************************************************)
(* SpecAgent: Host(alias) on a configuration whose entries have shared and *)
(* paths sections, and the RemoteHost it builds                            *)
(*                                                                         *)
(* The entry a is this machine and b is another host.  The working         *)
(* directory /a is a directory, /a/a and /b are regular files.             *)
(***************************************************************************)

\* An entry of hosts with the sections shared and paths
SectionedEntry(n, a, sh, pa) ==
    [name |-> n, address |-> a, queue_type |-> NoKey, shared |-> sh, paths |-> pa]

LocalShared == {<<>>, <<<<"k", K_a>>>>, <<<<"k", K_as>>>>, <<<<"j", K_a>>>>}
RemoteShared == {<<>>, <<<<"k", R_x>>>>, <<<<"k", R_xs>>>>}
LocalPaths == {<<>>, <<<<"p", <<SEP>>>>>>}
RemotePathsSections == {<<>>, <<<<"p", R_xy>>>>}

\* hosts = {a: ..., b: ...}: each entry with or without the two sections
AgentHosts ==
    {<<ea, eb>> :
        ea \in {EntryOf("a", "localhost")}
                  \cup {SectionedEntry("a", "localhost", sh, pa) : sh \in LocalShared, pa \in LocalPaths},
        eb \in {EntryOf("b", "srv")}
                  \cup {SectionedEntry("b", "srv", sh, pa) : sh \in RemoteShared, pa \in RemotePathsSections}}

AgentFiles == {N_aa, N_b}

InitAgent ==
    /\ SockIdle
    /\ JobIdle
    /\ RunIdle
    /\ TaskIdle
    /\ CONFIG \in [localhost : {NoKey, "a"}, hosts : AgentHosts]
    /\ hostname \in {"a", "m"}
    /\ host_instances = NoInstances
    /\ agents = <<>>
    /\ engines = <<>>
    /\ hpc = <<>>
    /\ host = <<>>
    /\ hist = <<>>
    /\ aliases = {}
    /\ quota = 0
    /\ res_arg \in {"b", "c"}
    /\ resolutions = <<>>
    /\ literals = <<>>
    /\ built = [ok |-> TRUE, val |-> <<>>, called |-> FALSE]
    /\ path_map = <<>>
    /\ shared_dirs = <<>>
    /\ fs \in {{<<SEP>>, cwd} \cup F : F \in SUBSET AgentFiles}
    /\ source \in AgentFiles \cup {<<"a">>}
    /\ phase = "fresh"
    /\ result = Ret(<<>>)
    /\ items = <<source>>
    /\ lcontent = [p \in fs \ {<<SEP>>, cwd} |-> p]
    /\ rcontent = <<>>
    /\ calls = <<>>

\* Host(alias): _get_config, and for an address other than localhost
\* RemoteHost(self.config), which reads shared and path_map of the config
NewHostAgent ==
    /\ resolutions = <<>>
    /\ LET r == _get_config(CONFIG, hostname, res_arg)
       IN  /\ CONFIG' = r.C
           /\ resolutions' = Append(resolutions, [before |-> CONFIG, ok |-> r.ok, val |-> r.val,
                                                  remote |-> REMOTE_(CONFIG, res_arg)])
           /\ IF r.ok /\ r.val.address # "localhost"
              THEN /\ literals' = r.val.path_map
                   /\ built' = _get_path_map(r.val.path_map)
                   /\ shared_dirs' = r.val.shared
                   /\ path_map' = IF built'.ok THEN built'.val ELSE path_map
              ELSE UNCHANGED <<literals, built, shared_dirs, path_map>>
    /\ UNCHANGED <<hostname, host_instances, agents, engines, hpc, host, hist, aliases, quota, res_arg,
                   fs, source, phase, result, sockVars, taskVars, xferVars, runVars, jobVars>>

\* The RemoteHost has been built
AgentBuilt == built.called /\ built.ok

\* is_shared(source) of the RemoteHost
AgentIsShared ==
    /\ AgentBuilt
    /\ phase = "fresh"
    /\ result' = Ret(is_shared(source))
    /\ phase' = "shared"
    /\ UNCHANGED <<path_map, shared_dirs, fs, source, sockVars, regVars, litVars, taskVars, resVars, xferVars, runVars, jobVars>>

\* send_to_host(items) of the RemoteHost
AgentSendToHost(fail) ==
    /\ AgentBuilt
    /\ calls = <<>>
    /\ calls' = Append(calls, Call_("send", send_to_host(items, rcontent, fail), lcontent))
    /\ rcontent' = calls'[Len(calls')].after
    /\ UNCHANGED <<pathVars, items, lcontent, sockVars, regVars, litVars, taskVars, resVars, runVars, jobVars>>

NextAgent ==
    \/ NewHostAgent
    \/ AgentIsShared
    \/ \E fail \in 0..1 : AgentSendToHost(fail)

SpecAgent == InitAgent /\ [][NextAgent]_vars

-----------------------------------------------------------------------------
(***************************************************************************)
(* SpecPrep: prepare_task of the RemoteHost that Host("b") builds          *)
(*                                                                         *)
(* The ceilings max_mem, max_cores and max_walltime of the config are the  *)
(* variable limits.  The working directory of the task is not modelled.    *)
(***************************************************************************)

\* params.sos_dict of the task: _input, _depends and _runtime["to_host"]
\* (has_to_host: whether _runtime has the key)
PrepTask(input, depends, has_to_host, to_host) ==
    [input |-> input, depends |-> depends, has_to_host |-> has_to_host, to_host |-> to_host]

PrepTasks ==
    {PrepTask(i, d, h, t) : i \in {<<>>, <<N_aa>>, <<N_b>>}, d \in {<<>>, <<N_b>>},
                            h \in BOOLEAN, t \in {<<>>, <<N_aa>>}} \ {PrepTask(i, d, FALSE, <<N_aa>>) : i \in {<<>>, <<N_aa>>, <<N_b>>}, d \in {<<>>, <<N_b>>}}

\* get_config(["hosts", alias], allowed_keys=["shared", "paths"]): the two
\* sections of the entry, those it has
SectionsOf(C, alias) ==
    [keys |-> DOMAIN HostEntry(C, alias) \cap {"shared", "paths"},
     shared |-> Section(HostEntry(C, alias), "shared"),
     paths |-> Section(HostEntry(C, alias), "paths")]

NoSections == [keys |-> {}, shared |-> <<>>, paths |-> <<>>]

\* tf.runtime before prepare_task wrote it
NoRuntime ==
    [written |-> FALSE, max_mem |-> None, max_cores |-> None, max_walltime |-> NoTime, localhost |-> NoSections]

\* The task file of a task that was not prepared yet, and whether it was
\* copied to the remote host
NewTaskFile == [status |-> "new", runtime |-> NoRuntime, uploaded |-> FALSE]

NoLimits == [max_mem |-> None, max_cores |-> None, max_walltime |-> NoTime]
SomeLimits == [max_mem |-> 1, max_cores |-> 1, max_walltime |-> <<0, 1, 0>>]

PrepHosts ==
    {<<EntryOf("a", "localhost"), EntryOf("b", "srv")>>,
     <<SectionedEntry("a", "localhost", <<<<"k", K_a>>>>, <<>>), EntryOf("b", "srv")>>,
     <<SectionedEntry("a", "localhost", <<<<"k", K_a>>>>, <<<<"p", <<SEP>>>>>>),
       SectionedEntry("b", "srv", <<<<"k", R_x>>>>, <<<<"p", R_xy>>>>)>>}

InitPrep ==
    /\ SockIdle
    /\ RunIdle
    /\ CONFIG \in [localhost : {"a"}, hosts : PrepHosts]
    /\ hostname = "a"
    /\ host_instances = NoInstances
    /\ agents = <<>>
    /\ engines = <<>>
    /\ hpc = <<>>
    /\ host = <<>>
    /\ hist = <<>>
    /\ aliases = {}
    /\ quota = 0
    /\ res_arg = "b"
    /\ resolutions = <<>>
    /\ literals = <<>>
    /\ built = [ok |-> TRUE, val |-> <<>>, called |-> FALSE]
    /\ path_map = <<>>
    /\ shared_dirs = <<>>
    /\ fs \in {{<<SEP>>, cwd, N_aa}, {<<SEP>>, cwd, N_aa, N_b}}
    /\ source = <<>>
    /\ phase = "fresh"
    /\ result = Ret(<<>>)
    /\ items = <<>>
    /\ lcontent = [p \in fs \ {<<SEP>>, cwd} |-> p]
    /\ rcontent = <<>>
    /\ calls = <<>>
    /\ limits \in {NoLimits, SomeLimits}
    /\ request \in [mem : {None, 1, 2}, cores : {1, 2}, walltime : {<<0, 0, 59>>, <<1, 0, 0>>}]
    /\ task_file \in BOOLEAN
    /\ local_ret = NotCalled
    /\ remote_ret = NotCalled
    /\ task \in PrepTasks
    /\ tf = NewTaskFile
    /\ ppc = "idle"
    /\ trace = <<>>

Did(e, what, ok) == [e |-> e, what |-> what, ok |-> ok]

\* prepare_task: an exception of _prepare_task is logged and False returned
PrepFails(e) ==
    /\ remote_ret' = Returned(FALSE, e)
    /\ ppc' = "done"

\* A _prepare_task that does not look at the ceilings
PrepChecksNoCeilings ==
    /\ AgentBuilt
    /\ ppc = "idle"
    /\ ~remote_ret.called
    /\ trace' = Append(trace, Did("ceilings", "", task_file))
    /\ IF task_file
       THEN ppc' = "input" /\ UNCHANGED remote_ret
       ELSE PrepFails("Missing task definition")
    /\ UNCHANGED <<limits, request, task_file, local_ret, task, tf,
                   pathVars, sockVars, regVars, litVars, resVars, xferVars, runVars>>

\* prepare_task(task_id) up to the staging: the task file must be there, and
\* the three ceilings are tested
PrepChecks ==
    /\ AgentBuilt
    /\ ppc = "idle"
    /\ ~remote_ret.called
    /\ trace' = Append(trace, Did("ceilings", "", _prepare_task(limits, request, task_file, TRUE).ok))
    /\ IF _prepare_task(limits, request, task_file, TRUE).ok
       THEN ppc' = "input" /\ UNCHANGED remote_ret
       ELSE PrepFails(_prepare_task(limits, request, task_file, TRUE).logged)
    /\ UNCHANGED <<limits, request, task_file, local_ret, task, tf,
                   pathVars, sockVars, regVars, litVars, resVars, xferVars, runVars>>

\* One of the three stagings: self.send_to_host(its) if the condition on
\* the task holds, and on to the next step
Stage(at, what, wanted, its, next, fail) ==
    /\ ppc = at
    /\ IF ~wanted
       THEN /\ ppc' = next
            /\ UNCHANGED <<calls, rcontent, trace, remote_ret>>
       ELSE /\ calls' = Append(calls, Call_("send", send_to_host(its, rcontent, fail), lcontent))
            /\ rcontent' = calls'[Len(calls')].after
            /\ trace' = Append(trace, Did("stage", what, calls'[Len(calls')].ret.ok))
            /\ IF calls'[Len(calls')].ret.ok
               THEN ppc' = next /\ UNCHANGED remote_ret
               ELSE PrepFails("staging")
    /\ UNCHANGED <<limits, request, task_file, local_ret, task, tf, items, lcontent,
                   pathVars, sockVars, regVars, litVars, resVars, runVars>>

\* "if task_vars['_input'] ...: sent = self.send_to_host(task_vars['_input'])"
StageInput(fail) == Stage("input", "_input", task.input # <<>>, task.input, "depends", fail)

\* "if task_vars['_depends'] ...: sent = self.send_to_host(task_vars['_depends'])"
StageDepends(fail) == Stage("depends", "_depends", task.depends # <<>>, task.depends, "to_host", fail)

\* "if 'to_host' in task_vars['_runtime']: ... self.send_to_host(task_vars['_runtime']['to_host'])"
StageToHost(fail) == Stage("to_host", "to_host", task.has_to_host, task.to_host, "writeback", fail)

\* The ceilings of the config and runtime["_runtime"]["localhost"] go to
\* the runtime, and "tf.runtime = runtime"
WriteBack ==
    /\ ppc = "writeback"
    /\ tf' = [tf EXCEPT !.runtime = [written |-> TRUE,
                                     max_mem |-> limits.max_mem,
                                     max_cores |-> limits.max_cores,
                                     max_walltime |-> limits.max_walltime,
                                     localhost |-> SectionsOf(CONFIG, resolutions[1].val.alias)]]
    /\ trace' = Append(trace, Did("writeback", "", TRUE))
    /\ ppc' = "pending"
    /\ UNCHANGED <<task, taskVars, pathVars, sockVars, regVars, litVars, resVars, xferVars, runVars>>

\* tf.status = "pending"
SetPending ==
    /\ ppc = "pending"
    /\ tf' = [tf EXCEPT !.status = "pending"]
    /\ trace' = Append(trace, Did("pending", "", TRUE))
    /\ ppc' = "upload"
    /\ UNCHANGED <<task, taskVars, pathVars, sockVars, regVars, litVars, resVars, xferVars, runVars>>

\* self.send_job_file(task_file): the command exits 0 and the task file is
\* in ~/.sos/tasks of the remote host, or it does not and RuntimeError is
\* raised
Upload(ok) ==
    /\ ppc = "upload"
    /\ tf' = [tf EXCEPT !.uploaded = ok]
    /\ trace' = Append(trace, Did("upload", "", ok))
    /\ IF ok THEN remote_ret' = Returned(TRUE, "") /\ ppc' = "done" ELSE PrepFails("upload")
    /\ UNCHANGED <<limits, request, task_file, local_ret, task,
                   pathVars, sockVars, regVars, litVars, resVars, xferVars, runVars>>

NextPrep ==
    \/ NewHostAgent
    \/ PrepChecks
    \/ \E fail \in 0..1 : StageInput(fail)
    \/ \E fail \in 0..1 : StageDepends(fail)
    \/ \E fail \in 0..1 : StageToHost(fail)
    \/ WriteBack
    \/ SetPending
    \/ \E ok \in BOOLEAN : Upload(ok)

SpecPrep == InitPrep /\ [][NextPrep]_vars

-----------------------------------------------------------------------------
(***************************************************************************)
(* SpecResult: receive_result of a RemoteHost                              *)
(*                                                                         *)
(* The scp command copies the task file of the remote host, with the       *)
(* result that the remote host left in it, over the one of this machine.   *)
(* A result has ret_code; results with the key succ are not modelled.      *)
(***************************************************************************)

\* tf.result: none, the one the task left, or the record that
\* receive_result makes up for a missing one
NoResult == [present |-> FALSE, ret_code |-> 0, synthesized |-> FALSE]
ResultOf(rc) == [present |-> TRUE, ret_code |-> rc, synthesized |-> FALSE]
NoResultReceived == [present |-> TRUE, ret_code |-> 1, synthesized |-> TRUE]

\* What receive_result left: nothing yet, an exception, or a result
NoReturn == [called |-> FALSE, ok |-> TRUE, val |-> NoResult, logged |-> ""]
RaisedResult(e) == [called |-> TRUE, ok |-> FALSE, val |-> NoResult, logged |-> e]

\* params.sos_dict of the task: the str and path of _output,
\* _runtime["from_host"] (has_from_host: whether _runtime has the key), and
\* env.config["run_mode"]
ResultTask(output, has_from_host, from_host, run_mode) ==
    [output |-> output, has_from_host |-> has_from_host, from_host |-> from_host, run_mode |-> run_mode]

ResultTasks ==
    {ResultTask(o, f[1], f[2], m) : o \in {<<>>, <<N_aa>>},
                                    f \in {<<FALSE, <<>> >>, <<TRUE, <<>> >>, <<TRUE, <<N_b>> >>},
                                    m \in {"run", "dryrun"}}

\* The files the task may have left on the remote host
RemoteOutputs == {N_aa, N_b, R_x \o <<SEP, "a">>}

InitResult ==
    /\ SockIdle
    /\ RunIdle
    /\ ResIdle
    /\ LitIdle
    /\ RegIdle
    /\ path_map \in {<<>>, <<<<K_a, R_x>>>>}
    /\ shared_dirs \in SharedChoices
    /\ fs \in {{<<SEP>>, cwd}, {<<SEP>>, cwd, N_aa}}
    /\ source = <<>>
    /\ phase = "fresh"
    /\ result = Ret(<<>>)
    /\ items = <<>>
    /\ lcontent = [p \in fs \ {<<SEP>>, cwd} |-> p]
    /\ rcontent \in {[p \in F |-> <<"made">>] : F \in {RemoteOutputs, RemoteOutputs \ {N_b}}}
    /\ calls = <<>>
    /\ limits = <<>>
    /\ request = <<>>
    /\ task_file = TRUE
    /\ local_ret = NotCalled
    /\ remote_ret = NoReturn
    /\ task \in ResultTasks
    /\ tf \in [result : {NoResult}, remote : {NoResult, ResultOf(0), ResultOf(1)}]
    /\ ppc = "idle"
    /\ trace = <<>>

\* receive_result raises
ResultRaises(e) ==
    /\ remote_ret' = RaisedResult(e)
    /\ ppc' = "done"

\* receive_result returns
ResultReturns(res) ==
    /\ remote_ret' = Returned(res, "")
    /\ ppc' = "done"

\* A receive_result that runs the scp command a second time whatever the
\* first exit code
ScpQuietThenAgain(rc) ==
    /\ ppc = "idle"
    /\ ~remote_ret.called
    /\ trace' = Append(trace, Did("scp", "quiet", rc = 0))
    /\ tf' = IF rc = 0 THEN [tf EXCEPT !.result = tf.remote] ELSE tf
    /\ ppc' = "scp"
    /\ UNCHANGED <<task, taskVars, pathVars, sockVars, regVars, litVars, resVars, xferVars, runVars>>

\* receive_result(task_id) up to the first scp command, which runs with
\* stdout and stderr discarded
ScpQuiet(rc) ==
    /\ ppc = "idle"
    /\ ~remote_ret.called
    /\ trace' = Append(trace, Did("scp", "quiet", rc = 0))
    /\ tf' = IF rc = 0 THEN [tf EXCEPT !.result = tf.remote] ELSE tf
    /\ ppc' = IF rc = 0 THEN "load" ELSE "scp"
    /\ UNCHANGED <<task, taskVars, pathVars, sockVars, regVars, litVars, resVars, xferVars, runVars>>

\* "ret = subprocess.call(receive_cmd, shell=True)": the second run, and
\* RuntimeError if it exits non-zero too
ScpAgain(rc) ==
    /\ ppc = "scp"
    /\ trace' = Append(trace, Did("scp", "loud", rc = 0))
    /\ tf' = IF rc = 0 THEN [tf EXCEPT !.result = tf.remote] ELSE tf
    /\ IF rc = 0 THEN ppc' = "load" /\ UNCHANGED remote_ret ELSE ResultRaises("RuntimeError")
    /\ UNCHANGED <<limits, request, task_file, local_ret, task,
                   pathVars, sockVars, regVars, litVars, resVars, xferVars, runVars>>

\* A receive_result that goes on to retrieve the files of a failed task
LoadResultOfAny ==
    /\ ppc = "load"
    /\ trace' = Append(trace, Did("load", "", tf.result.present))
    /\ IF ~tf.result.present
       THEN ResultReturns(NoResultReceived)
       ELSE ppc' = "output" /\ UNCHANGED remote_ret
    /\ UNCHANGED <<limits, request, task_file, local_ret, task, tf,
                   pathVars, sockVars, regVars, litVars, resVars, xferVars, runVars>>

\* "tf = TaskFile(task_id); res = tf.result": a missing result and the
\* result of a failed task end the call
LoadResult ==
    /\ ppc = "load"
    /\ trace' = Append(trace, Did("load", "", tf.result.present))
    /\ IF ~tf.result.present
       THEN ResultReturns(NoResultReceived)
       ELSE IF tf.result.ret_code # 0
       THEN ResultReturns(tf.result)
       ELSE ppc' = "output" /\ UNCHANGED remote_ret
    /\ UNCHANGED <<limits, request, task_file, local_ret, task, tf,
                   pathVars, sockVars, regVars, litVars, resVars, xferVars, runVars>>

\* One of the two retrievals: self.receive_from_host(its) if the condition
\* on the task holds, and on to the next step
Retrieve(at, what, wanted, its, next, fail) ==
    /\ ppc = at
    /\ IF ~wanted
       THEN /\ ppc' = next
            /\ UNCHANGED <<calls, lcontent, fs, trace, remote_ret>>
       ELSE /\ calls' = Append(calls, Call_("receive", receive_from_host(its, lcontent, fail), lcontent))
            /\ lcontent' = calls'[Len(calls')].after
            /\ fs' = {<<SEP>>, cwd} \cup DOMAIN lcontent'
            /\ trace' = Append(trace, Did("receive", what, calls'[Len(calls')].ret.ok))
            /\ IF calls'[Len(calls')].ret.ok
               THEN ppc' = next /\ UNCHANGED remote_ret
               ELSE ResultRaises("RuntimeError")
    /\ UNCHANGED <<limits, request, task_file, local_ret, task, tf, items, rcontent,
                   path_map, shared_dirs, source, phase, result,
                   sockVars, regVars, litVars, resVars, runVars>>

\* "if '_output' in job_dict and job_dict['_output'] and ... run_mode != 'dryrun'"
RetrieveOutput(fail) ==
    Retrieve("output", "_output", task.output # <<>> /\ task.run_mode # "dryrun", task.output, "from_host", fail)

\* "if 'from_host' in job_dict['_runtime'] and run_mode != 'dryrun'"
RetrieveFromHost(fail) ==
    Retrieve("from_host", "from_host", task.has_from_host /\ task.run_mode # "dryrun", task.from_host, "return", fail)

\* "return res"
ReturnResult ==
    /\ ppc = "return"
    /\ ResultReturns(tf.result)
    /\ UNCHANGED <<limits, request, task_file, local_ret, task, tf, trace,
                   pathVars, sockVars, regVars, litVars, resVars, xferVars, runVars>>

NextResult ==
    \/ \E rc \in {0, 1} : ScpQuiet(rc)
    \/ \E rc \in {0, 1} : ScpAgain(rc)
    \/ LoadResult
    \/ \E fail \in 0..1 : RetrieveOutput(fail)
    \/ \E fail \in 0..1 : RetrieveFromHost(fail)
    \/ ReturnResult

SpecResult == InitResult /\ [][NextResult]_vars

-----------------------------------------------------------------------------
(***************************************************************************)
(* SpecLocal: prepare_task of a LocalHost and the task file it writes      *)
(*                                                                         *)
(* A runtime is the set of the keys of its "_runtime" dict.  A request or  *)
(* a ceiling that is None is a key that the dict does not have.            *)
(***************************************************************************)

\* The keys of task_vars["_runtime"] that prepare_task copies
CopiedKeys == {"verbosity", "sig_mode", "run_mode", "walltime", "cores", "mem"}

\* The keys of task_vars["_runtime"] of a task with this request
TaskKeys(others, req) ==
    others \cup (IF req.mem # None THEN {"mem"} ELSE {})
           \cup (IF req.cores # None THEN {"cores"} ELSE {})
           \cup (IF req.walltime # NoTime THEN {"walltime"} ELSE {})

\* "for key in ('max_mem', 'max_cores', 'max_walltime'): if key in self.config"
CeilingKeys(cfg) ==
    (IF cfg.max_mem # None THEN {"max_mem"} ELSE {})
        \cup (IF cfg.max_cores # None THEN {"max_cores"} ELSE {})
        \cup (IF cfg.max_walltime # NoTime THEN {"max_walltime"} ELSE {})

\* A prepare_task that stores the whole _runtime of the task
local_runtime_all(keys, cfg) == keys \cup {"workdir"} \cup CeilingKeys(cfg)

\* The runtime that LocalHost.prepare_task makes: the copied keys that the
\* task has, workdir (of the task, or the working directory), the ceilings
local_runtime(keys, cfg) == (keys \cap CopiedKeys) \cup {"workdir"} \cup CeilingKeys(cfg)

\* ~/.sos/tasks/<task_id>.task, and where send_job_file puts a job file
TASK_FILE == "~/.sos/tasks/t.task"
DestJobFile(job_file) == TASK_FILE

\* LocalHost.send_job_file: "if job_file != dest_job_file: shutil.copyfile"
local_send_job_file(job_file) == IF job_file # DestJobFile(job_file) THEN 1 ELSE 0

\* The task file before prepare_task, with the runtime of an earlier run
LocalTaskFile(old) == [status |-> "new", runtime |-> old, copies |-> 0]

\* prepare_task calls of one run
MaxPrepares == 2

OtherKeys == {"verbosity", "workdir", "to_host"}

Requests == [mem : Amounts, cores : {1, 2}, walltime : {NoTime, <<1, 0, 0>>}]

InitLocal ==
    /\ PathIdle
    /\ SockIdle
    /\ RegIdle
    /\ LitIdle
    /\ ResIdle
    /\ XferIdle
    /\ RunIdle
    /\ limits \in [max_mem : Amounts, max_cores : {None, 1}, max_walltime : {NoTime, <<0, 1, 0>>}]
    /\ request \in Requests
    /\ task_file \in BOOLEAN
    /\ local_ret = NotCalled
    /\ remote_ret = NotCalled
    /\ task \in [others : SUBSET OtherKeys]
    /\ tf \in {LocalTaskFile(old) : old \in {{}, {"workdir", "localhost"}}}
    /\ ppc = "idle"
    /\ trace = <<>>

\* LocalHost.prepare_task(task_id)
LocalPrepare ==
    /\ ppc = "idle"
    /\ Len(trace) < MaxPrepares
    /\ local_ret' = local_prepare_task(limits, request, task_file)
    /\ tf' = IF local_ret'.ok /\ local_ret'.val
             THEN [status |-> "pending",
                   runtime |-> local_runtime(TaskKeys(task.others, request), limits),
                   copies |-> tf.copies + local_send_job_file(TASK_FILE)]
             ELSE tf
    /\ trace' = Append(trace, [before |-> tf, request |-> request])
    /\ ppc' = "done"
    /\ UNCHANGED <<limits, request, task_file, remote_ret, task,
                   pathVars, sockVars, regVars, litVars, resVars, xferVars, runVars>>

\* The task that was refused is submitted again with another request
Resubmit(req) ==
    /\ ppc = "done"
    /\ local_ret.ok /\ ~local_ret.val
    /\ req # request
    /\ request' = req
    /\ ppc' = "idle"
    /\ UNCHANGED <<limits, task_file, local_ret, remote_ret, task, tf, trace,
                   pathVars, sockVars, regVars, litVars, resVars, xferVars, runVars>>

NextLocal ==
    \/ LocalPrepare
    \/ \E req \in Requests : Resubmit(req)

SpecLocal == InitLocal /\ [][NextLocal]_vars

-----------------------------------------------------------------------------
(***************************************************************************)
(* Properties of the path mapper (SpecPath)                                *)
(***************************************************************************)

\* Directory k exists and the absolute path p is k itself or lies under it.
Covers(k, p) ==
    LET d == Canon(k)
    IN  /\ Exists(k)
        /\ \/ p = d
           \/ StartsWith(p, IF d = <<SEP>> THEN d ELSE d \o <<SEP>>)

\* The source is already absolute and normalized, has no backslash, and
\* every key of path_map exists.
Plain ==
    /\ source = AbsPath(source)
    /\ \A i \in 1..Len(source) : source[i] # BACKSLASH
    /\ \A i \in 1..Len(path_map) : Exists(path_map[i][1])

CoveringEntries == {i \in 1..Len(path_map) : Covers(path_map[i][1], source)}

\* C8: map_path replaces the longest matching local prefix: the result is
\* the remote prefix of the longest key covering the path followed by the
\* unchanged remainder, and a path covered by no key is returned unchanged.
C8_LongestMatch ==
    (phase = "mapped" /\ Plain) =>
        IF CoveringEntries # {}
        THEN /\ result.ok
             /\ \E i \in CoveringEntries :
                   /\ \A j \in CoveringEntries : Len(path_map[j][1]) <= Len(path_map[i][1])
                   /\ result.val = path_map[i][2] \o Drop(source, Len(path_map[i][1]))
        ELSE result = Ret(source)

\* C9: is_shared(p) is true exactly when the absolute path starts with some
\* entry of shared and with no key of path_map.
C9_SharedUnlessMapped ==
    phase = "shared" =>
        (result.val <=>
            /\ \E i \in 1..Len(shared_dirs) : StartsWith(AbsPath(source), shared_dirs[i])
            /\ ~\E j \in 1..Len(path_map) : StartsWith(AbsPath(source), path_map[j][1]))

\* C9, its case happens: shared = [/a], path_map = [/a/b -> ...], a path
\* under /a/b is not shared.
C9_Witness ==
    /\ phase = "shared"
    /\ shared_dirs = <<K_a>>
    /\ Len(path_map) = 1 /\ path_map[1][1] = K_ab
    /\ StartsWith(AbsPath(source), K_ab \o <<SEP>>)
    /\ result.val = FALSE

\* C10: for a path covered by some entry, reverse_map_path(map_path(p)) = p
\* (stated for maps whose remote prefixes differ and whose prefixes have no
\* trailing separator).
C10_RoundTrip ==
    ( /\ phase = "reversed"
      /\ Plain
      /\ CoveringEntries # {}
      /\ \A i \in 1..Len(path_map) : ~EndsWith(path_map[i][1], SEP) /\ ~EndsWith(path_map[i][2], SEP)
      /\ \A i, j \in 1..Len(path_map) : i # j => path_map[i][2] # path_map[j][2] )
    => result = Ret(source)


\* C11: with one path_map entry whose local key has no trailing separator
\* and whose remote prefix ends with "/", a path made of the key, one
\* separator ("/" or "\") and a name maps to the remote prefix followed by
\* the name: only "/" separates, and the join has no doubled separator.
C11_SeparatorNormalization ==
    (/\ phase = "mapped"
     /\ Len(path_map) = 1
     /\ ~EndsWith(path_map[1][1], SEP)
     /\ EndsWith(path_map[1][2], SEP)
     /\ Exists(path_map[1][1])
     /\ Len(source) > Len(path_map[1][1]) + 1
     /\ StartsWith(source, path_map[1][1])
     /\ source[Len(path_map[1][1]) + 1] \in {SEP, BACKSLASH}
     /\ \A i \in Len(path_map[1][1]) + 2 .. Len(source) : source[i] \notin {SEP, BACKSLASH})
        => /\ result.ok
           /\ result.val = path_map[1][2] \o Drop(source, Len(path_map[1][1]) + 1)


-----------------------------------------------------------------------------
(***************************************************************************)
(* Properties of the tunneled socket (SpecSock, SpecSockConc)              *)
(***************************************************************************)

Callers == DOMAIN pc

EventsAt(t, e) == {i \in 1..Len(log[t]) : log[t][i].e = e}

\* The first thing the current call of t did was a probe with this outcome
ProbeWas(t, x) == Len(log[t]) >= 1 /\ log[t][1].e = "probe" /\ log[t][1].x = x

\* The connect_to_server of t's current call has returned or raised
ConnectOver(t) == pc[t] \in {"request", "recv"} \/ (pc[t] = "idle" /\ log[t] # <<>>)

\* C3: a cached socket that answers the probe with yes is returned, and the
\* call neither starts the helper nor opens a new socket.
C3_HealthyReuse ==
    \A t \in Callers :
        ProbeWas(t, "yes") =>
            /\ rsock[t] = log[t][1].s
            /\ remote_socket = log[t][1].s
            /\ EventsAt(t, "start_server") = {}
            /\ EventsAt(t, "create") = {}

\* C3, its case happens: a request went out on the cached socket after a
\* healthy probe.
C3_Witness ==
    \E t \in Callers :
        /\ ProbeWas(t, "yes")
        /\ pc[t] = "recv"
        /\ log[t][Len(log[t])] = Ev("send", log[t][1].s, Verb(op[t]))

\* C4: a connect_to_server call whose cached socket is absent or unhealthy
\* starts the helper exactly once, before the first new socket.
C4_OneHelperStart ==
    \A t \in Callers :
        (ConnectOver(t) /\ ~ProbeWas(t, "yes")) =>
            /\ Cardinality(EventsAt(t, "start_server")) = 1
            /\ \A i \in EventsAt(t, "create") : \E j \in EventsAt(t, "start_server") : j < i

\* C5: one connect_to_server call opens at most 5 new sockets.
C5_AtMostFiveSockets ==
    \A t \in Callers : Cardinality(EventsAt(t, "create")) <= 5

\* C6: when the probe of the cached socket is not answered and a later new
\* socket is, check_output caches the new socket in place of the stale
\* one, sends its request on the new socket and never on the stale one,
\* and returns the helper's output.
C6_Reconnect ==
    \A t \in Callers :
        ( /\ op[t] = "check_output"
          /\ ProbeWas(t, "none")
          /\ \E i \in EventsAt(t, "create") : log[t][i].x = "yes" )
        => LET stale == log[t][1].s
               made == CHOOSE i \in EventsAt(t, "create") : log[t][i].x = "yes"
               new == log[t][made].s
               last == log[t][Len(log[t])]
           IN  /\ new # stale
               /\ remote_socket = new
               /\ rsock[t] = new
               /\ EventsAt(t, "efsm") = {}
               /\ \A i \in EventsAt(t, "send") : log[t][i] = Ev("send", new, "check_output")
               /\ pc[t] = "recv" => last = Ev("send", new, "check_output")
               /\ pc[t] = "idle" =>
                     /\ last.e = "recv" /\ last.s = new
                     /\ last.x = "output" <=> ret[t] = Ret("output")

\* C6, its case happens: the probe timed out, a socket attempt failed, the
\* next was answered, and check_output returned the output.
C6_Witness ==
    \E t \in Callers :
        /\ op[t] = "check_output"
        /\ ProbeWas(t, "none")
        /\ \E i \in EventsAt(t, "create") : log[t][i].x = "none"
        /\ \E i \in EventsAt(t, "create") : log[t][i].x = "yes"
        /\ pc[t] = "idle"
        /\ ret[t] = Ret("output")

\* C7: with two threads on one RemoteHost, no thread sends on the socket
\* while the request of the other thread is outstanding on it.
C7_NoInterleaving ==
    \A t \in Callers : \A i \in EventsAt(t, "efsm") : log[t][i].x # "other"

-----------------------------------------------------------------------------
(***************************************************************************)
(* Properties of the registry (SpecReg, SpecRegConc)                       *)
(***************************************************************************)

Lookups == {i \in 1..Len(hist) : hist[i].ev = "lookup"}

\* C1: when a Host lookup succeeds, the next Host lookup with the same
\* alias, with no reset and no engine stop in between, succeeds too and
\* returns the same agent object; and a successful lookup of that alias
\* right after a Host.reset() returns a different agent object.
C1_RegistryIdentity ==
    \A i \in Lookups :
        hist[i].ok =>
            /\ (i + 1 \in Lookups /\ hist[i + 1].arg = hist[i].arg)
                    => hist[i + 1].ok /\ hist[i + 1].agent = hist[i].agent
            /\ (/\ i + 2 \in Lookups
                /\ hist[i + 1].ev = "reset"
                /\ hist[i + 2].arg = hist[i].arg
                /\ hist[i + 2].ok)
                    => hist[i + 2].agent # hist[i].agent

\* C2: when two threads look up the same alias that the registry does not
\* have yet, and both lookups return, one agent was constructed for the
\* alias and both Host objects hold it.
C2_OneAgentPerAlias ==
    (/\ Len(hist) = 2
     /\ \A i \in 1..2 : hist[i].ev = "lookup" /\ hist[i].ok
     /\ hist[1].by # hist[2].by
     /\ hist[1].alias = hist[2].alias)
        => /\ hist[1].agent = hist[2].agent
           /\ Cardinality({n \in DOMAIN agents : agents[n].alias = hist[1].alias}) = 1

\* The lookup failed for a reason outside the program: the remote host
\* could not be reached, or no plugin of the queue_type loads
Unavailable(ev) == ~ev.ok /\ ev.err \in {"RuntimeError", "ValueError"} /\ ev.agent = None

\* The thread of the task engine of the agent that lookup i returned ended
\* right after it, and the next thing is a lookup of the same alias, begun
\* after that
StoppedThenLookup(i) ==
    /\ i \in Lookups /\ hist[i].ok
    /\ i + 2 \in Lookups
    /\ hist[i + 1].ev = "stop" /\ hist[i + 1].agent = hist[i].agent
    /\ hist[i + 2].arg = hist[i].arg
    /\ hist[i + 2].since = i + 1

\* C19: the lookup that follows the stop of an agent's task engine puts a
\* newly constructed agent with engines of its own into the registry and
\* returns it; and two lookups of an alias return the same agent when
\* there was no reset and no stop of its task engine since the first began.
C19_Eviction ==
    /\ \A i \in 1..Len(hist) :
          (StoppedThenLookup(i) /\ ~Unavailable(hist[i + 2])) =>
              LET m == hist[i + 2].agent
              IN  /\ hist[i + 2].ok
                  /\ m # hist[i].agent
                  /\ \A j \in Lookups : j < i + 2 => hist[j].agent # m
                  /\ Len(hist) = i + 2 =>
                        /\ host_instances[hist[i + 2].alias] = m
                        /\ agents[m]._task_engine # Unset
                        /\ agents[m]._task_engine # None => engines[agents[m]._task_engine].agent = m
                        /\ agents[m]._workflow_engine \in {m, None}
    /\ \A i, j \in Lookups :
          (/\ i < j
           /\ hist[i].ok /\ hist[j].ok
           /\ hist[i].arg = hist[j].arg
           /\ \A k \in (hist[i].since + 1)..(j - 1) :
                 /\ hist[k].ev # "reset"
                 /\ ~(hist[k].ev = "stop" /\ hist[k].agent = hist[i].agent))
              => hist[j].agent = hist[i].agent

-----------------------------------------------------------------------------
(***************************************************************************)
(* Properties of the path_map literals (SpecLit)                           *)
(***************************************************************************)

ArrowsAt(v) == {i \in 1..(Len(v) - 3) : SubSeq(v, i, i + 3) = ARROW}

\* No separator, or two separators side by side or apart
Malformed(v) == ArrowsAt(v) = {} \/ \E i, j \in ArrowsAt(v) : j >= i + 4

\* C12: constructing a RemoteHost from literals of which one has no " -> "
\* or more than one fails with an error that names the first such literal;
\* otherwise it succeeds, every entry is the from and the to of a literal
\* joined by " -> ", the last literal is an entry, and a single literal
\* makes exactly one entry.
C12_LiteralSyntax ==
    built.called =>
        IF \E i \in 1..Len(literals) : Malformed(literals[i])
        THEN /\ ~built.ok
             /\ \E i \in 1..Len(literals) :
                    /\ Malformed(literals[i])
                    /\ \A j \in 1..(i - 1) : ~Malformed(literals[j])
                    /\ built.val = literals[i]
        ELSE /\ built.ok
             /\ \A e \in 1..Len(built.val) :
                    \E i \in 1..Len(literals) :
                        built.val[e][1] \o ARROW \o built.val[e][2] = literals[i]
             /\ \E e \in 1..Len(built.val) :
                    built.val[e][1] \o ARROW \o built.val[e][2] = literals[Len(literals)]
             /\ Len(literals) = 1 => Len(built.val) = 1

\* C12, its case happens: a literal with two separators was refused
C12_Witness ==
    /\ built.called
    /\ ~built.ok
    /\ \E i, j \in ArrowsAt(built.val) : j >= i + 4

-----------------------------------------------------------------------------
(***************************************************************************)
(* Properties of prepare_task (SpecTask)                                   *)
(***************************************************************************)

\* The task asks for strictly more of the resource than the host allows
MoreMem == limits.max_mem # None /\ request.mem # None /\ request.mem > limits.max_mem
MoreCores == limits.max_cores # None /\ request.cores # None /\ request.cores > limits.max_cores
MoreWalltime ==
    /\ limits.max_walltime # NoTime
    /\ request.walltime # NoTime
    /\ expand_time(request.walltime) > expand_time(limits.max_walltime)

RefusedFor(r, what) == r.ok /\ r.val = FALSE /\ r.logged = what

Resources == {"mem", "cores", "walltime"}

\* C13: for an existing task file, a request above a ceiling makes both
\* prepare_task return False; no host refuses for a resource whose request
\* is not above its ceiling; and the local host refuses exactly when the
\* remote host refuses for a ceiling.
C13_ResourceCeiling ==
    (task_file /\ local_ret.called /\ remote_ret.called) =>
        /\ (MoreMem \/ MoreCores \/ MoreWalltime)
                => /\ local_ret.ok /\ local_ret.val = FALSE
                   /\ remote_ret.ok /\ remote_ret.val = FALSE
        /\ \A r \in {local_ret, remote_ret} :
                /\ RefusedFor(r, "mem") => MoreMem
                /\ RefusedFor(r, "cores") => MoreCores
                /\ RefusedFor(r, "walltime") => MoreWalltime
        /\ remote_ret.ok
        /\ (local_ret.ok /\ local_ret.val = FALSE) <=> (\E w \in Resources : RefusedFor(remote_ret, w))
        /\ ~(MoreMem \/ MoreCores \/ MoreWalltime) => local_ret = Returned(TRUE, "")

\* C13, its case happens: the task asks for a minute more than the
\* walltime allowed, as much mem as allowed, and both hosts refused
C13_Witness ==
    /\ task_file
    /\ MoreWalltime
    /\ limits.max_mem # None
    /\ request.mem = limits.max_mem
    /\ RefusedFor(local_ret, "walltime")
    /\ RefusedFor(remote_ret, "walltime")

-----------------------------------------------------------------------------
(***************************************************************************)
(* Properties of the resolver (SpecResolve)                                *)
(***************************************************************************)

S5Hosts == <<EntryOf("a", "localhost"), EntryOf("b", "localhost")>>

\* C14: with hosts = {a: {address: localhost}, b: {address: localhost}}
\* and no top-level localhost, resolving alias b succeeds with path_map
\* empty and shared = ["/"], whatever the host name of the machine.
C14_SameHostS5 ==
    (/\ Len(resolutions) >= 1
     /\ resolutions[1].before = [localhost |-> NoKey, hosts |-> S5Hosts]
     /\ res_arg = "b")
        => /\ resolutions[1].ok
           /\ {"path_map", "shared"} \subseteq resolutions[1].val.keys
           /\ resolutions[1].val.path_map = <<>>
           /\ resolutions[1].val.shared = <<"/">>

-----------------------------------------------------------------------------
(***************************************************************************)
(* Properties of the transfers (SpecXfer)                                  *)
(***************************************************************************)

\* The remote host could be reached by every command of the call
Reached(c) == \A i \in 1..Len(c.cmds) : c.cmds[i].why # "host"

\* The items of the call that exist and that is_shared holds for
SharedItems == {i \in 1..Len(items) : Exists(AbsPath(items[i])) /\ is_shared(items[i])}

\* C15: send_to_host issues no transfer command for an existing source
\* that is_shared, and the map it returns has the source with its mapped
\* absolute remote path.
C15_SharedSkip ==
    (Len(calls) = 1 /\ Reached(calls[1])) =>
        \A i \in SharedItems :
            /\ \A j \in 1..Len(calls[1].cmds) : calls[1].cmds[j].source # items[i]
            /\ calls[1].ret.ok
            /\ \E j \in 1..Len(calls[1].ret.val) :
                  /\ calls[1].ret.val[j][1] = items[i]
                  /\ calls[1].ret.val[j][2] = _map_var(items[i]).val
                  /\ StartsWith(calls[1].ret.val[j][2], <<SEP>>)

\* The one item of the call is a regular file that is not shared and lies
\* under a key of path_map
RoundTripCase ==
    /\ Len(items) = 1
    /\ Len(calls) >= 1
    /\ LocalFile(items[1]) \in DOMAIN calls[1].before
    /\ ~is_shared(items[1])
    /\ \E i \in 1..Len(path_map) : Covers(path_map[i][1], LocalFile(items[1]))

\* C16: send_to_host(f) of such a file returns {f: the mapped remote
\* path} and the remote host has the content of f at that path; the
\* receive_from_host(f) that follows copies from that path, and f then has
\* the content that was sent.
C16_SendReceive ==
    RoundTripCase =>
        /\ (Len(calls) = 1 /\ Reached(calls[1])) =>
              /\ calls[1].ret = Ret(<<<<items[1], _map_var(items[1]).val>>>>)
              /\ Canon(calls[1].ret.val[1][2]) \in DOMAIN rcontent
              /\ rcontent[Canon(calls[1].ret.val[1][2])] = calls[1].before[LocalFile(items[1])]
        /\ (Len(calls) = 2 /\ Reached(calls[2])) =>
              /\ calls[2].ret.ok
              /\ Len(calls[2].cmds) = 1
              /\ calls[2].cmds[1].op = "receive"
              /\ calls[2].cmds[1].source = calls[1].ret.val[1][2]
              /\ lcontent[LocalFile(items[1])] = calls[1].before[LocalFile(items[1])]

\* C20: the commands of one call are issued in ascending order of their
\* source paths, and a command that exits non-zero is the last one of the
\* call, which then raises and returns no map.
C20_OrderAndFirstFailure ==
    \A n \in 1..Len(calls) :
        LET c == calls[n]
        IN  /\ \A i, j \in 1..Len(c.cmds) : i < j => StrLess(c.cmds[i].source, c.cmds[j].source)
            /\ \A i \in 1..Len(c.cmds) : c.cmds[i].rc # 0 => (i = Len(c.cmds) /\ ~c.ret.ok)

\* A send_to_host of two files to transfer whose first command fails
C20_Witness ==
    /\ Len(items) = 2
    /\ Len(calls) = 1
    /\ \A i \in 1..2 : Exists(AbsPath(items[i])) /\ ~is_shared(items[i])
    /\ LocalFile(items[1]) # LocalFile(items[2])
    /\ Len(calls[1].cmds) = 1
    /\ calls[1].cmds[1].rc # 0
    /\ ~calls[1].ret.ok

-----------------------------------------------------------------------------
(***************************************************************************)
(* Properties of run_command (SpecRun)                                     *)
(***************************************************************************)

\* C17: run_command(cmd, wait_for_task=True, realtime=False) has not
\* returned before its child has terminated and has been waited for.
C17_WaitsForChild ==
    (wait_for_task /\ cpc = "returned") => proc["cmd"].st = "reaped"

C17_Witness == wait_for_task /\ cpc = "returned" /\ proc["cmd"].st = "reaped"

Detached == ~wait_for_task /\ platform # "win32"

-----------------------------------------------------------------------------
(***************************************************************************)
(* More properties of the tunneled socket (SpecSock)                       *)
(***************************************************************************)

\* C21: when the probe of the cached socket is answered with something
\* other than yes, connect_to_server does not fail at the probe: it goes on
\* to start the helper and to open new sockets, and the call fails in
\* connect_to_server only when the attempts at a new socket are used up.
C21_ProbeNotYes ==
    \A t \in Callers :
        ProbeWas(t, "other") =>
            /\ ~(pc[t] = "idle" /\ Len(log[t]) = 1)
            /\ Len(log[t]) >= 2 => log[t][2].e = "start_server"

-----------------------------------------------------------------------------
(***************************************************************************)
(* More properties of the resolver (SpecResolve)                           *)
(***************************************************************************)

\* CONFIG as the i-th resolution left it
ConfigAfter(i) == IF i < Len(resolutions) THEN resolutions[i + 1].before ELSE CONFIG

\* The local host key of a configuration: its top-level localhost, else
\* "localhost"
LocalKey(C) == IF C.localhost # NoKey THEN C.localhost ELSE "localhost"

\* C22: the remote key of a resolution is the alias itself when the alias
\* is a key of hosts (the key "localhost" included); it is the local host
\* key when the alias is empty, or is "localhost" and hosts has no such
\* key; any other alias is added to hosts with itself as address and is
\* the remote key.
C22_RemoteKey ==
    \A i \in 1..Len(resolutions) :
        LET B == resolutions[i].before
            R == resolutions[i].remote
        IN  R.called =>
              /\ R.ok
              /\ InHosts(B, res_arg) => R.val = res_arg
              /\ (res_arg = "" \/ (res_arg = "localhost" /\ ~InHosts(B, "localhost")))
                    => R.val = LocalKey(B)
              /\ (res_arg \notin {"", "localhost"} /\ ~InHosts(B, res_arg))
                    => /\ R.val = res_arg
                       /\ InHosts(ConfigAfter(i), res_arg)
                       /\ HostEntry(ConfigAfter(i), res_arg).address = res_arg

-----------------------------------------------------------------------------
(***************************************************************************)
(* Error replies of the helper (SpecSock)                                  *)
(***************************************************************************)

\* The current call of t is over and failed: the helper replied error: or
\* (ret != 0, msg), or the request did not get through
CallFailed(t) ==
    /\ pc[t] = "idle"
    /\ log[t] # <<>>
    /\ LET last == log[t][Len(log[t])]
       IN  last.e = "recv" => last.x \in {"error:", "failed"}

\* What an operation returns for the answers of a helper that carried the
\* request out
Answers(o) == {Decoded(o, r) : r \in {q \in Replies(Verb(o)) : q.msg \notin {"error:", "failed"}}}

\* C23: a call that the helper answered with error: or with a non-zero
\* return code, or whose request failed on the way, ends as a failure for
\* its caller: check_output raises, and target_exists and target_signature
\* do not return what they return for an answer of the helper.
C23_ErrorsSurface ==
    \A t \in Callers :
        CallFailed(t) =>
            /\ op[t] = "check_output" => ~ret[t].ok
            /\ ret[t] \notin Answers(op[t])

-----------------------------------------------------------------------------
(***************************************************************************)
(* More properties of the path mapper (SpecPath)                           *)
(***************************************************************************)

\* The remote prefix r is a prefix of p that ends on a separator boundary
AlignedPrefix(r, p) ==
    /\ StartsWith(p, r)
    /\ \/ Len(r) = Len(p)
       \/ r[Len(r)] \in {SEP, BACKSLASH}
       \/ p[Len(r) + 1] \in {SEP, BACKSLASH}

RemoteCovering == {i \in 1..Len(path_map) : AlignedPrefix(path_map[i][2], source)}

\* C24: reverse_map_path takes, of the pairs whose remote prefix is an
\* aligned prefix of the input, one with the longest remote prefix, and
\* returns its local prefix followed by the input without that remote
\* prefix; an input that no pair matches comes back unchanged.  Separators
\* are normalized in both cases.
C24_ReverseLongestRemote ==
    phase = "reversed_input" =>
        IF RemoteCovering # {}
        THEN \E i \in RemoteCovering :
                /\ \A j \in RemoteCovering : Len(path_map[j][2]) <= Len(path_map[i][2])
                /\ result = Ret(ReplaceBackslash(path_map[i][1] \o Drop(source, Len(path_map[i][2]))))
        ELSE result = Ret(ReplaceBackslash(source))

-----------------------------------------------------------------------------
(***************************************************************************)
(* Properties of the agent built by the resolver (SpecAgent)               *)
(***************************************************************************)

\* The entries the resolution took as local and as remote
LocalEntry == HostEntry(resolutions[1].before, "a")
RemoteEntry == HostEntry(resolutions[1].before, res_arg)

\* The directories of the shared names that both entries define
CommonShared ==
    {Lookup(Section(LocalEntry, "shared"), k) :
        k \in {Section(LocalEntry, "shared")[i][1] : i \in 1..Len(Section(LocalEntry, "shared"))}
              \cap {Section(RemoteEntry, "shared")[i][1] : i \in 1..Len(Section(RemoteEntry, "shared"))}}

\* The RemoteHost was built from a local and a remote entry that both
\* define a shared name, and the source lies under its local directory
UnderCommonShared ==
    /\ AgentBuilt
    /\ InHosts(resolutions[1].before, res_arg)
    /\ \E d \in CommonShared : Covers(d, AbsPath(source))

\* C25: a local path under a shared directory that the local and the
\* remote entry both define is shared for the RemoteHost that the resolver
\* builds: is_shared is true for it, and send_to_host issues no transfer
\* command for it.
C25_SharedIntersection ==
    UnderCommonShared =>
        /\ phase = "shared" => result.val = TRUE
        /\ calls # <<>> => calls[1].cmds = <<>>

-----------------------------------------------------------------------------
(***************************************************************************)
(* Properties of RemoteHost.prepare_task (SpecPrep)                        *)
(***************************************************************************)

\* The place of a step in the order ceilings, staging of _input, of
\* _depends and of to_host, write-back, pending, upload
Rank(ev) ==
    CASE ev.e = "ceilings" -> 1
      [] ev.e = "stage" /\ ev.what = "_input" -> 2
      [] ev.e = "stage" /\ ev.what = "_depends" -> 3
      [] ev.e = "stage" /\ ev.what = "to_host" -> 4
      [] ev.e = "writeback" -> 5
      [] ev.e = "pending" -> 6
      [] ev.e = "upload" -> 7

Steps(e) == {i \in 1..Len(trace) : trace[i].e = e}

\* The task asks for more than a ceiling of the host allows
CeilingExceeded == MoreMem \/ MoreCores \/ MoreWalltime

\* A send_to_host of the call raised
StagingFailed == \E i \in 1..Len(calls) : ~calls[i].ret.ok

\* C26: _prepare_task tests the ceilings, then stages _input, _depends and
\* to_host with send_to_host, then writes the runtime back, then sets the
\* status to pending, then uploads the task file.  So after an exceeded
\* ceiling or a failed staging the status is not pending and the task file
\* is not uploaded, and after an exceeded ceiling nothing was staged.
C26_PrepareOrder ==
    /\ \A i, j \in 1..Len(trace) : i < j => Rank(trace[i]) < Rank(trace[j])
    /\ trace # <<>> => trace[1].e = "ceilings"
    /\ Steps("stage") # {} => Len(calls) = Cardinality(Steps("stage"))
    /\ Steps("writeback") # {} =>
            /\ task.input # <<>> => \E i \in Steps("stage") : trace[i].what = "_input"
            /\ task.depends # <<>> => \E i \in Steps("stage") : trace[i].what = "_depends"
            /\ task.has_to_host => \E i \in Steps("stage") : trace[i].what = "to_host"
    /\ tf.status = "pending" <=> Steps("pending") # {}
    /\ Steps("pending") # {} => Steps("writeback") # {}
    /\ Steps("upload") # {} => Steps("pending") # {}
    /\ tf.uploaded => Steps("upload") # {}
    /\ (CeilingExceeded \/ StagingFailed) => (tf.status # "pending" /\ ~tf.uploaded /\ Steps("upload") = {})
    /\ CeilingExceeded => calls = <<>>

\* C26, its case happens: a host with ceilings and a task within them,
\* whose three stagings each issued a command and whose task file was then
\* uploaded.
C26_Witness ==
    /\ limits = SomeLimits
    /\ ~CeilingExceeded
    /\ Len(calls) = 3
    /\ \A i \in 1..3 : Len(calls[i].cmds) = 1
    /\ Len(trace) = 7
    /\ tf.status = "pending"
    /\ tf.uploaded
    /\ remote_ret = Returned(TRUE, "")

\* C27: after a prepare_task that returned True, _runtime.localhost of the
\* task is the shared and paths sections of the entry of hosts that the
\* resolver took as the local host, the entry a.
C27_RuntimeLocalhost ==
    remote_ret = Returned(TRUE, "") =>
        /\ tf.runtime.written
        /\ tf.runtime.localhost = SectionsOf(CONFIG, "a")

-----------------------------------------------------------------------------
(***************************************************************************)
(* Properties of RemoteHost.receive_result (SpecResult)                    *)
(***************************************************************************)

\* The call went on after the scp commands
WentOn == ppc \in {"load", "output", "from_host", "return"} \/ Steps("load") # {}

\* C28: receive_result runs the scp command at most twice, the second
\* time only after the first exited non-zero; when both exit non-zero it
\* raises and the task file is not loaded; when one of them exits zero the
\* call goes on.
C28_ScpAtMostTwice ==
    /\ Cardinality(Steps("scp")) <= 2
    /\ \A i \in Steps("scp") : i <= 2
    /\ Cardinality(Steps("scp")) = 2 => ~trace[1].ok
    /\ (\E i \in Steps("scp") : trace[i].ok) => WentOn
    /\ (Cardinality(Steps("scp")) = 2 /\ \A i \in Steps("scp") : ~trace[i].ok) =>
            /\ remote_ret = RaisedResult("RuntimeError")
            /\ Steps("load") = {}
            /\ tf.result = NoResult
            /\ calls = <<>>
    /\ Steps("load") # {} => \E i \in Steps("scp") : trace[i].ok

\* C28, its case happens: the first scp failed, the second did not, and
\* receive_result returned the result of the task.
C28_Witness ==
    /\ Len(trace) >= 3
    /\ trace[1] = Did("scp", "quiet", FALSE)
    /\ trace[2] = Did("scp", "loud", TRUE)
    /\ remote_ret = Returned(ResultOf(0), "")

\* The receive_from_host calls of the receive_result call
Retrievals(what) == {i \in Steps("receive") : trace[i].what = what}

-----------------------------------------------------------------------------
(***************************************************************************)
(* Properties of receive_from_host (SpecXfer)                              *)
(***************************************************************************)

\* The call raised because a command it issued exited non-zero
CommandFailed(c) == Len(c.cmds) > 0 /\ c.cmds[Len(c.cmds)].rc # 0

\* The destination is shared and has the basename of the remote source
SkipCase(src, dst) == is_shared(dst) /\ Basename(src) = Basename(dst)

\* The commands of the call that write the destination
CommandsFor(c, dst) == {j \in 1..Len(c.cmds) : c.cmds[j].dest = dst}

\* C30: receive_from_host issues no transfer command for an item whose
\* local destination is shared and whose remote and local basenames are
\* equal, and the map it returns has that item; for every other item it
\* issues exactly one receive command, and that command is the rename
\* variant exactly when the basenames differ.
C30_ReceiveSkipOrOnce ==
    Len(calls) = 2 =>
        LET c == calls[2]
        IN  /\ \A j \in 1..Len(c.cmds) :
                  /\ c.cmds[j].op = "receive"
                  /\ ~SkipCase(c.cmds[j].source, c.cmds[j].dest)
                  /\ c.cmds[j].rename <=> Basename(c.cmds[j].source) # Basename(c.cmds[j].dest)
                  /\ CommandsFor(c, c.cmds[j].dest) = {j}
            /\ c.ret.ok \/ CommandFailed(c)
            /\ c.ret.ok =>
                  /\ \A i \in 1..Len(items) : \E j \in 1..Len(c.ret.val) : c.ret.val[j][1] = items[i]
                  /\ \A j \in 1..Len(c.ret.val) :
                        IF SkipCase(c.ret.val[j][2], c.ret.val[j][1])
                        THEN CommandsFor(c, c.ret.val[j][1]) = {}
                        ELSE \E k \in 1..Len(c.cmds) :
                                /\ CommandsFor(c, c.ret.val[j][1]) = {k}
                                /\ c.cmds[k].source = c.ret.val[j][2]

-----------------------------------------------------------------------------
(***************************************************************************)
(* The same-host case of the resolver (SpecResolve)                        *)
(***************************************************************************)

\* The local host key that a resolution that returned has used: the
\* detected entry instead of "localhost" when hosts has it
ResolvedLocal(B, alias) ==
    LET l == _get_local_host(B)
        r == _get_remote_host(l.C, alias)
    IN  IF l.val = "localhost" /\ InHosts(r.C, _detect_host(l.C, hostname))
        THEN _detect_host(l.C, hostname) ELSE l.val

\* The remote key is the local key, or the remote entry has no address
\* or the address "localhost"
SameHostCase(i) ==
    /\ resolutions[i].ok
    /\ \/ resolutions[i].val.alias = ResolvedLocal(resolutions[i].before, res_arg)
       \/ resolutions[i].val.address \in {NoKey, "localhost"}

\* C31: a resolution whose remote key is its local key (both may be the
\* literal "localhost"), or whose remote entry has no address or has the
\* address "localhost", gives a config with path_map = [] and
\* shared = ["/"].
C31_SameHostConfig ==
    \A i \in 1..Len(resolutions) :
        SameHostCase(i) =>
            /\ {"path_map", "shared"} \subseteq resolutions[i].val.keys
            /\ resolutions[i].val.path_map = <<>>
            /\ resolutions[i].val.shared = <<"/">>

-----------------------------------------------------------------------------
(***************************************************************************)
(* Starting the task engine (SpecReg)                                      *)
(***************************************************************************)

\* The i-th event is the first lookup of its alias
FirstLookup(i) == i \in Lookups /\ \A k \in Lookups : k < i => hist[k].arg # hist[i].arg

\* C32: a lookup starts the task engine only when start_engine is asked
\* for; a lookup with start_engine of an alias whose first lookup, just
\* before, was made without it returns the same agent and starts its
\* engine; and no engine is started twice.
C32_StartEngine ==
    /\ \A i \in Lookups : hist[i].started => hist[i].start_engine /\ hist[i].ok
    /\ \A i \in Lookups :
          (/\ FirstLookup(i)
           /\ hist[i].ok
           /\ ~hist[i].start_engine
           /\ i + 1 \in Lookups
           /\ hist[i + 1].arg = hist[i].arg
           /\ hist[i + 1].start_engine)
              => /\ hist[i + 1].ok
                 /\ hist[i + 1].agent = hist[i].agent
                 /\ hist[i + 1].started
    /\ \A i, j \in Lookups :
          (i < j /\ hist[i].started /\ hist[j].started) => hist[i].agent # hist[j].agent

-----------------------------------------------------------------------------
(***************************************************************************)
(* Agents of the registry and their engines (SpecReg)                      *)
(***************************************************************************)

\* No Host(...) call is under way
Quiescent == \A t \in DOMAIN hpc : hpc[t] = "idle"

\* The agent has a task engine and a workflow engine attached
HasEngines(n) ==
    /\ agents[n]._task_engine \notin {Unset, None}
    /\ agents[n]._workflow_engine \notin {Unset, None}

\* C33: whenever no lookup is under way, also after a lookup that raised,
\* every agent that the registry holds has a task engine and a workflow
\* engine attached.
C33_StoredAgentsHaveEngines ==
    Quiescent => \A k \in DOMAIN host_instances : HasEngines(host_instances[k])

-----------------------------------------------------------------------------
(***************************************************************************)
(* Repeating a resolution (SpecResolve)                                    *)
(***************************************************************************)

\* The agent that _get_host_agent builds for a config
AgentKind(v) == IF v.address = "localhost" THEN "LocalHost" ELSE "RemoteHost"

\* C34: when the resolution of an alias has returned, the next resolution
\* of the same alias on the same machine, on the configuration as the
\* first one left it, returns too, with the same alias, address, path_map
\* and shared, and so the same kind of agent.
C34_Repeatable ==
    (Len(resolutions) = 2 /\ resolutions[1].ok) =>
        /\ resolutions[2].ok
        /\ resolutions[2].val = resolutions[1].val
        /\ AgentKind(resolutions[2].val) = AgentKind(resolutions[1].val)

-----------------------------------------------------------------------------
(***************************************************************************)
(* Path-segment boundaries (SpecPath)                                      *)
(***************************************************************************)

\* The entries of shared that cover the source
CoveringShared == {i \in 1..Len(shared_dirs) : Covers(shared_dirs[i], source)}

\* C35: map_path rewrites a path with a key only if the path is the key
\* or lies under the directory of the key, so a sibling whose name begins
\* with the last segment of the key is returned unchanged; and is_shared
\* holds only for a path that an entry of shared covers in this sense, and
\* a key of which the path is only a sibling does not make it unshared.
C35_SegmentBoundaries ==
    /\ (phase = "mapped" /\ Plain /\ result.ok /\ result.val # source) =>
          \E i \in CoveringEntries : result.val = path_map[i][2] \o Drop(source, Len(path_map[i][1]))
    /\ (phase = "shared" /\ Plain) =>
          /\ result.val => CoveringShared # {}
          /\ (CoveringShared # {} /\ CoveringEntries = {}) => result.val

-----------------------------------------------------------------------------
(***************************************************************************)
(* Request/reply discipline of the tunneled socket (SpecSock)              *)
(***************************************************************************)

\* The current call of t is over and its connect_to_server did not find a
\* cached socket that answered its probe
Reconnected(t) ==
    /\ pc[t] = "idle"
    /\ log[t] # <<>>
    /\ ~ProbeWas(t, "yes")
    /\ ~ProbeWas(t, "other")

\* C36: over the calls of one caller, no message is sent on a socket that
\* has a request without reply outstanding, and a call that does not find
\* a healthy cached socket (as after a connect that failed) starts the
\* helper again before it ends.
C36_RequestReply ==
    \A t \in Callers :
        /\ EventsAt(t, "efsm") = {}
        /\ Reconnected(t) => EventsAt(t, "start_server") # {}

-----------------------------------------------------------------------------
(***************************************************************************)
(* The status after a failed preparation (SpecPrep)                        *)
(***************************************************************************)

\* prepare_task of the RemoteHost has returned False
PrepReturnedFalse == remote_ret.called /\ remote_ret.ok /\ remote_ret.val = FALSE

\* C37: when prepare_task of a RemoteHost has returned False, also after
\* a failed upload of the task file, the status of the task is what it was
\* before the call and not pending.
C37_FailedPrepKeepsStatus ==
    PrepReturnedFalse => tf.status = NewTaskFile.status

-----------------------------------------------------------------------------
(***************************************************************************)
(* Properties of LocalHost.prepare_task (SpecLocal)                        *)
(***************************************************************************)

\* The task file as it was before the last call
TaskFileBefore == trace[Len(trace)].before

\* C38: when LocalHost.prepare_task returns False for an exceeded ceiling,
\* the task file is as it was: runtime and status are not written and no
\* copy is made.  When it returns True the status is pending and the
\* stored runtime has, of the keys of the task, only verbosity, sig_mode,
\* run_mode, walltime, cores and mem, and besides them workdir and the
\* ceilings of the host.
C38_LocalPrepareFrame ==
    ppc = "done" =>
        /\ (local_ret.ok /\ ~local_ret.val) =>
              /\ CeilingExceeded
              /\ tf = TaskFileBefore
        /\ (local_ret.ok /\ local_ret.val) =>
              /\ tf.status = "pending"
              /\ tf.runtime \subseteq CopiedKeys \cup {"workdir", "max_mem", "max_cores", "max_walltime"}
              /\ tf.runtime \cap CopiedKeys = TaskKeys(task.others, request) \cap CopiedKeys
              /\ "workdir" \in tf.runtime
              /\ \A k \in {"max_mem", "max_cores", "max_walltime"} :
                    k \in tf.runtime <=> limits[k] # (IF k = "max_walltime" THEN NoTime ELSE None)

\* C38, both cases happen: a task whose file had the runtime of an earlier
\* run was refused, and its file was as before; submitted again within the
\* ceilings it was accepted, and it has a key that is not copied
C38_Witness ==
    /\ ppc = "done"
    /\ Len(trace) = 2
    /\ trace[1].before.runtime = {"workdir", "localhost"}
    /\ trace[2].before = trace[1].before
    /\ local_ret.ok /\ local_ret.val
    /\ "to_host" \in task.others
    /\ limits.max_mem # None
    /\ request.mem # None
    /\ tf.status = "pending"

-----------------------------------------------------------------------------
(***************************************************************************)
(* Termination of connect_to_server (SpecSockLive)                         *)
(***************************************************************************)

\* The caller is inside connect_to_server
Connecting(t) == pc[t] \in {"connect", "poll", "start", "create"}

\* connect_to_server has just returned its socket to the caller
ConnectReturned(t) == pc[t] = "request"

\* The last thing the call did was an alive check that this socket
\* answered with yes
AnsweredYes(t, sk) ==
    /\ log[t] # <<>>
    /\ log[t][Len(log[t])].e \in {"probe", "create"}
    /\ log[t][Len(log[t])].s = sk
    /\ log[t][Len(log[t])].x = "yes"

\* C39: every connect_to_server call ends, whatever the helper does: it
\* returns a socket (never None) that answered yes to an alive check of
\* this call, its last one, or it raises, and it makes a bounded number of
\* new sockets.
C39_ConnectTerminates ==
    /\ [](\A t \in Callers :
            /\ ConnectReturned(t) => (rsock[t] # NoSock /\ rsock[t] = remote_socket /\ AnsweredYes(t, rsock[t]))
            /\ Cardinality(EventsAt(t, "create")) <= MaxAttempts + 1)
    /\ Connecting(1) ~> ~Connecting(1)

\* C39, its case happens: the probe of the cached socket was not answered,
\* every new socket but the last was not answered either, and the call
\* returned the last one
C39_Witness ==
    /\ ConnectReturned(1)
    /\ ProbeWas(1, "none")
    /\ Cardinality(EventsAt(1, "create")) = MaxAttempts + 1
    /\ AnsweredYes(1, rsock[1])

-----------------------------------------------------------------------------
(***************************************************************************)
(* Open tunneled sockets (SpecSock)                                        *)
(***************************************************************************)

OpenSockets == {n \in SockIds : sockst[n].st # "free"}

\* C40: between the calls of one caller, the RemoteHost has at most one
\* tunneled socket open, the cached one: the sockets of failed attempts
\* and the cached socket that a new one replaced are closed.
C40_OneOpenSocket ==
    (\A t \in Callers : pc[t] = "idle") => OpenSockets \subseteq {remote_socket}

====
